---- MODULE Spec2Model ----
(***************************************************************************)
(* Benchmark orchestration engine of the ESLint benchmark suite:           *)
(*   - classifyChanges          (the "hydra" runner, Change Classifier)    *)
(*   - runBenchmark and its helpers in benchmarks/ai-security/             *)
(*     run-antigravity.js: runSingleModel, runModelsWithConcurrency,       *)
(*     saveCheckpoint / loadCheckpoint, main's resume scan, the merge.     *)
(***************************************************************************)
EXTENDS Integers, Sequences, FiniteSets, TLC

\* ------------------------------------------------------------------------
\* Bounds
\* ------------------------------------------------------------------------
\* longest finding list handed to classifyChanges
MaxFindings == 3

\* ------------------------------------------------------------------------
\* Small helpers (JavaScript array / Set / object idioms)
\* ------------------------------------------------------------------------
Range(s) == {s[k] : k \in DOMAIN s}

SeqsUpTo(S, n) == UNION {[1..k -> S] : k \in 0..n}

Min(a, b) == IF a <= b THEN a ELSE b

\* new Set(array): the distinct values, in order of first occurrence
RECURSIVE NewSet(_)
NewSet(s) ==
    IF s = <<>> THEN <<>>
    ELSE LET front == NewSet(SubSeq(s, 1, Len(s) - 1))
             last  == s[Len(s)]
         IN  IF last \in Range(front) THEN front ELSE Append(front, last)

\* array.map((v) => v.ruleId)
MapRuleId(violations) == [k \in DOMAIN violations |-> violations[k].ruleId]

\* array.filter(keep), keep given as the set of values that pass
Filter(s, keep) == SelectSeq(s, LAMBDA r : r \in keep)

\* for (const v of violations) counts[v.ruleId] = (counts[v.ruleId] || 0) + 1
\* The object is a function on the keys that were assigned.
RECURSIVE RuleCounts(_)
RuleCounts(violations) ==
    IF violations = <<>> THEN << >>
    ELSE LET counts == RuleCounts(SubSeq(violations, 1, Len(violations) - 1))
             r      == violations[Len(violations)].ruleId
             old    == IF r \in DOMAIN counts THEN counts[r] ELSE 0
         IN  [x \in DOMAIN counts \cup {r} |-> IF x = r THEN old + 1 ELSE counts[x]]

\* counts[r] || 0
CountOr0(counts, r) == IF r \in DOMAIN counts THEN counts[r] ELSE 0

\* array.reduce((sum, r) => sum + term(r), 0)
RECURSIVE ReduceSum(_, _)
ReduceSum(s, term) ==
    IF s = <<>> THEN 0
    ELSE ReduceSum(SubSeq(s, 1, Len(s) - 1), term) + term[s[Len(s)]]

\* ------------------------------------------------------------------------
\* Change Classifier
\* ------------------------------------------------------------------------
RuleIds == {"A", "B", "C"}

Finding == [ruleId : RuleIds]

FindingLists == SeqsUpTo(Finding, MaxFindings)

F(r) == [ruleId |-> r]

\* const fixed = [...prevRules].filter((r) => !currRules.has(r))
ClassifyFixed(prevRules, currRules) ==
    Filter(prevRules, Range(prevRules) \ Range(currRules))

\* mutant: the filter on currRules.has(r) is dropped
ClassifyPersistedUnfiltered(prevRules, currRules) == prevRules

\* const persisted = [...prevRules].filter((r) => currRules.has(r))
ClassifyPersisted(prevRules, currRules) ==
    Filter(prevRules, Range(currRules))

\* mutant: the filter on !prevRules.has(r) is dropped
ClassifyIntroducedUnfiltered(prevRules, currRules) == currRules

\* const introduced = [...currRules].filter((r) => !prevRules.has(r))
ClassifyIntroduced(prevRules, currRules) ==
    Filter(currRules, Range(currRules) \ Range(prevRules))

\* mutant: Math.min dropped, the previous round's count is summed
PersistedCountPrevOnly(persisted, prevRuleCounts, currRuleCounts) ==
    ReduceSum(persisted, [r \in Range(persisted) |-> CountOr0(prevRuleCounts, r)])

\* persisted.reduce((sum, r) => sum + Math.min(prev[r] || 0, curr[r] || 0), 0)
PersistedCount(persisted, prevRuleCounts, currRuleCounts) ==
    ReduceSum(persisted,
              [r \in Range(persisted) |->
                  Min(CountOr0(prevRuleCounts, r), CountOr0(currRuleCounts, r))])

classifyChanges(prevViolations, currViolations) ==
    LET prevRules      == NewSet(MapRuleId(prevViolations))
        currRules      == NewSet(MapRuleId(currViolations))
        prevRuleCounts == RuleCounts(prevViolations)
        currRuleCounts == RuleCounts(currViolations)
        fixed          == ClassifyFixed(prevRules, currRules)
        persisted      == ClassifyPersisted(prevRules, currRules)
        introduced     == ClassifyIntroduced(prevRules, currRules)
    IN  [ fixed           |-> fixed,
          fixedCount      |-> ReduceSum(fixed,
                                [r \in Range(fixed) |-> CountOr0(prevRuleCounts, r)]),
          persisted       |-> persisted,
          persistedCount  |-> PersistedCount(persisted, prevRuleCounts, currRuleCounts),
          introduced      |-> introduced,
          introducedCount |-> ReduceSum(introduced,
                                [r \in Range(introduced) |-> CountOr0(currRuleCounts, r)]),
          netChange       |-> Len(currViolations) - Len(prevViolations),
          isHydra         |-> Len(introduced) > 0,
          prevTotal       |-> Len(prevViolations),
          currTotal       |-> Len(currViolations) ]

\* ------------------------------------------------------------------------
\* Bounds of the orchestrator model
\* ------------------------------------------------------------------------
\* longest requested model list (--model=a,b,c)
MaxModels == 3
\* largest --iterations value
MaxIterations == 2
\* largest --concurrency-anthropic / --concurrency-google value
MaxConcurrency == 2
\* number of consecutive invocations of main() in the resume specification
MaxRuns == 2
\* passes of the chunk loop followed once its index has left 0..length
MaxSpins == 2
\* largest magnitude of a negative --concurrency-anthropic value
MaxNegative == 1

\* ------------------------------------------------------------------------
\* Registries (excerpts of MODEL_REGISTRY and PROMPTS)
\* ------------------------------------------------------------------------
ModelIds == {"opus-4.6", "sonnet-4.5", "gemini-3-flash"}

\* MODEL_REGISTRY[modelId].provider
Provider(modelId) == IF modelId = "gemini-3-flash" THEN "google" ELSE "anthropic"

Providers == {"anthropic", "google"}

PROMPTS == [database |-> <<"db-get-user-by-id">>,
            authentication |-> <<"auth-generate-jwt">>]

\* --categories=... values used (default: Object.keys(PROMPTS))
CategoryChoices == {<<"database">>, <<"database", "authentication">>}

\* for (const category of categories) { const prompts = PROMPTS[category];
\*   if (!prompts) continue; for (const promptConfig of prompts) ... }
RECURSIVE AllPrompts(_)
AllPrompts(categories) ==
    IF categories = <<>> THEN <<>>
    ELSE LET c == categories[Len(categories)]
         IN  AllPrompts(SubSeq(categories, 1, Len(categories) - 1))
             \o (IF c \in DOMAIN PROMPTS THEN PROMPTS[c] ELSE <<>>)

\* requested model lists: each model named once
ModelLists ==
    {l \in SeqsUpTo(ModelIds, Min(MaxModels, Cardinality(ModelIds))) :
        /\ l # <<>>
        /\ \A j, k \in DOMAIN l : l[j] = l[k] => j = k}

\* ------------------------------------------------------------------------
\* External collaborators: a deterministic provider and linter.
\* What generateCode / analyzeWithESLint / remediateCode return for one unit
\* of work depends on the model, the prompt, the iteration and the prompt
\* suffix (securityContext); a provider whose transport is down fails every
\* generation.
\* ------------------------------------------------------------------------
ModelNo(modelId) ==
    CASE modelId = "opus-4.6" -> 0
      [] modelId = "sonnet-4.5" -> 1
      [] OTHER -> 2

PromptNo(promptId) == IF promptId = "db-get-user-by-id" THEN 0 ELSE 1

UnitKind(modelId, promptId, i, securityContext) ==
    (2 * ModelNo(modelId) + 3 * PromptNo(promptId) + 5 * i
       + (IF securityContext THEN 1 ELSE 0)) % 7

Throw(msg) == [threw |-> TRUE, message |-> msg]
Return(v) == [threw |-> FALSE, value |-> v]

\* generateCode(prompt, modelConfig, {securityContext})
generateCode(modelId, promptId, i, securityContext, transport) ==
    IF transport = "down" THEN Throw("CLI failed")
    ELSE IF UnitKind(modelId, promptId, i, securityContext) = 2
         THEN Throw("generation timed out")
         ELSE Return("code")

\* analyzeWithESLint(code, `ag-${modelId}-${promptConfig.id}-${i}.js`)
analyzeWithESLint(modelId, promptId, i, securityContext) ==
    LET kind == UnitKind(modelId, promptId, i, securityContext)
    IN  CASE kind = 4 -> Throw("lint failed")
          [] kind = 1 -> Return(<<F("A"), F("B")>>)
          [] kind = 3 -> Return(<<F("A")>>)
          [] kind = 5 -> Return(<<F("A"), F("A")>>)
          [] kind = 6 -> Return(<<F("B")>>)
          [] OTHER -> Return(<<>>)

\* remediateCode(code, violations, modelConfig)
remediateCode(modelId, promptId, i, securityContext) ==
    IF UnitKind(modelId, promptId, i, securityContext) = 3
    THEN Throw("remediation timed out")
    ELSE Return("fixedCode")

\* analyzeWithESLint(fixedCode, `ag-${modelId}-${promptConfig.id}-${i}-fixed.js`)
analyzeFixed(modelId, promptId, i, securityContext) ==
    LET kind == UnitKind(modelId, promptId, i, securityContext)
    IN  CASE kind = 6 -> Throw("lint failed")
          [] kind = 5 -> Return(<<F("A"), F("C")>>)
          [] OTHER -> Return(<<>>)

\* ------------------------------------------------------------------------
\* State
\* ------------------------------------------------------------------------
VARIABLES
    prevViolations,   \* classifier input: findings of the previous round
    currViolations,   \* classifier input: findings of the current round
    report,           \* the ChangeReport, NoReport before the call
    cfg,              \* config object main() hands to runBenchmark
    phase,            \* position of runBenchmark: "start", "running", "done"
    checkpoints,      \* files of CHECKPOINT_DIR, by path
    resumeModels,     \* object built by main's resume scan
    resultsModels,    \* results.models (object: keys in insertion order)
    summary,          \* results.summary, NoSummary while unset
    groups,           \* one runModelsWithConcurrency call per provider group
    runner,           \* one runSingleModel call per requested list entry
    heap,             \* the modelResults object allocated by each call
    calls,            \* per call: external calls that have returned or thrown
    saves,            \* per model id: saveCheckpoint calls of this run
    runsLeft,         \* invocations of main() still to come
    hydra,            \* runHydraBenchmark / runHydraForPrompt (the hydra runner)
    stat              \* one call of a statistics function: arguments and result

classifyVars == <<prevViolations, currViolations, report>>

runVars == <<cfg, phase, checkpoints, resumeModels, resultsModels, summary,
             groups, runner, heap, calls, saves, runsLeft>>

hydraVars == <<hydra>>

statVars == <<stat>>

vars == <<classifyVars, runVars, hydraVars, statVars>>

NoReport == [none |-> TRUE]

\* no statistics function has been called
StatIdle == [op |-> "idle"]

\* JavaScript undefined (absent property, missing Map entry)
Undefined == [undefined |-> TRUE]

Truthy(v) == v # Undefined

\* ------------------------------------------------------------------------
\* Plain objects: key/value pairs in insertion order
\* ------------------------------------------------------------------------
ObjKeys(o) == [k \in DOMAIN o |-> o[k].key]

ObjHas(o, key) == \E k \in DOMAIN o : o[k].key = key

ObjGet(o, key) ==
    IF ObjHas(o, key)
    THEN o[CHOOSE k \in DOMAIN o : o[k].key = key].value
    ELSE Undefined

\* o[key] = value: an existing key keeps its position
ObjSet(o, key, value) ==
    IF ObjHas(o, key)
    THEN [k \in DOMAIN o |-> IF o[k].key = key THEN [key |-> key, value |-> value]
                                                ELSE o[k]]
    ELSE Append(o, [key |-> key, value |-> value])

\* ------------------------------------------------------------------------
\* Checkpoint helpers
\* ------------------------------------------------------------------------
ConditionTag(securityContext) == IF securityContext THEN "control" ELSE "treatment"

\* checkpoint-${safeId}-${conditionTag}-${iterationsPerPrompt}iter.json
\* (safeId is the model id itself for every id of the registry)
getCheckpointPath(modelId, securityContext, iterationsPerPrompt) ==
    <<modelId, ConditionTag(securityContext), iterationsPerPrompt>>

CheckpointPaths == ModelIds \X {"control", "treatment"} \X (1..MaxIterations)

Absent == [exists |-> FALSE]

NoCheckpoints == [path \in CheckpointPaths |-> Absent]

\* the file written by saveCheckpoint(modelId, modelResults) under configuration c
CheckpointFile(modelId, modelResults, c) ==
    [ exists  |-> TRUE,
      modelId |-> modelId,
      config  |-> [ iterationsPerPrompt |-> c.iterationsPerPrompt,
                    categories          |-> c.categories,
                    enableRemediation   |-> c.enableRemediation,
                    securityContext     |-> c.securityContext ],
      results |-> modelResults ]

saveCheckpoint(store, modelId, modelResults, c) ==
    [store EXCEPT ![getCheckpointPath(modelId, c.securityContext, c.iterationsPerPrompt)]
                      = CheckpointFile(modelId, modelResults, c)]

\* JSON.parse(fs.readFileSync(cpPath, "utf-8")) returns (does not throw)
Parses(file) == "text" \notin DOMAIN file

\* data.config?.iterationsPerPrompt === iterationsArg &&
\* data.config?.securityContext === securityContext
FingerprintMatches(file, c) ==
    /\ "config" \in DOMAIN file
    /\ "iterationsPerPrompt" \in DOMAIN file.config
    /\ "securityContext" \in DOMAIN file.config
    /\ file.config.iterationsPerPrompt = c.iterationsPerPrompt
    /\ file.config.securityContext = c.securityContext

\* data.results
PayloadOf(file) == IF "results" \in DOMAIN file THEN file.results ELSE Undefined

\* "Verify the checkpoint matches current config": data.results, or Undefined
loadCheckpoint(file, c) ==
    IF ~file.exists THEN Undefined
    ELSE IF Parses(file) /\ FingerprintMatches(file, c)
         THEN PayloadOf(file)
         ELSE Undefined

\* main: for (const modelId of selectedModels) { ... resumeModels[modelId] = data.results }
RECURSIVE ScanCheckpoints(_, _, _)
ScanCheckpoints(selectedModels, store, c) ==
    IF selectedModels = <<>> THEN <<>>
    ELSE LET before  == ScanCheckpoints(SubSeq(selectedModels, 1, Len(selectedModels) - 1),
                                        store, c)
             modelId == selectedModels[Len(selectedModels)]
             file    == store[getCheckpointPath(modelId, c.securityContext,
                                                c.iterationsPerPrompt)]
         IN  \* resumeModels[modelId] = data.results is executed before the
             \* console.log that reads data.results.totalFunctions; what that
             \* log throws is swallowed by the catch
             IF file.exists /\ Parses(file) /\ FingerprintMatches(file, c)
             THEN ObjSet(before, modelId, PayloadOf(file))
             ELSE before

ResumeScan(c, store) == IF c.resume THEN ScanCheckpoints(c.models, store, c) ELSE <<>>

\* ------------------------------------------------------------------------
\* runSingleModel: the fold of one provider's units of work
\* ------------------------------------------------------------------------
NewModelResults ==
    [ totalFunctions               |-> 0,
      functionsWithVulnerabilities |-> 0,
      totalVulnerabilities         |-> 0,
      byPrompt                     |-> <<>>,
      remediationAttempts          |-> 0,
      remediationFullyFixed        |-> 0,
      remediationTotalOriginal     |-> 0,
      remediationTotalRemaining    |-> 0,
      vulnerabilityRateNumeric     |-> Undefined,
      remediationEffectiveness     |-> Undefined ]

NewPromptResults(promptId) == [id |-> promptId, iterations |-> <<>>]

IdleRunner ==
    [ pc            |-> "idle",
      skipped       |-> FALSE,
      transport     |-> "up",
      pi            |-> 1,
      i             |-> 0,
      violations    |-> <<>>,
      promptResults |-> Undefined,
      provider      |-> "unknown",
      streamOutput  |-> FALSE,
      waited        |-> 0,
      gaps          |-> {} ]

InFlightPcs == {"called", "generate", "analyze", "remediate", "reanalyze"}

Prompts == AllPrompts(cfg.categories)

\* mutant: one modelResults object shared by all calls
ModelResultsShared(k) == 1

\* const modelResults = {...}: every call of runSingleModel allocates its own
ModelResultsOf(k) == k

\* promptResults.iterations.push(record)
PushIteration(r, record) ==
    [r EXCEPT !.promptResults.iterations = Append(@, record)]

\* mutant: no catch, the error leaves runSingleModel and rejects its promise
RethrowIterationError(r, message) == [r EXCEPT !.pc = "rejected"]

\* catch (error) { promptResults.iterations.push({iteration: i + 1, error}) }
CatchIterationError(r, message) ==
    PushIteration(r, [iteration |-> r.i + 1, error |-> message])

\* promptResults.iterations[length - 1].remediation = remediation
SetRemediation(r, remediation) ==
    [r EXCEPT !.promptResults.iterations[Len(r.promptResults.iterations)].remediation
                  = remediation]

\* Math.round(100 * a / b) for a >= 0, b > 0
RoundPercent(a, b) == (200 * a + b) \div (2 * b)

\* model-level stats computed after the loops
Finalize(mr) ==
    [mr EXCEPT
       !.vulnerabilityRateNumeric =
           IF mr.totalFunctions > 0
           THEN RoundPercent(mr.functionsWithVulnerabilities, mr.totalFunctions)
           ELSE 0,
       !.remediationEffectiveness =
           IF mr.remediationAttempts > 0
           THEN [ attempts   |-> mr.remediationAttempts,
                  fullyFixed |-> mr.remediationFullyFixed,
                  totalOriginalVulnerabilities  |-> mr.remediationTotalOriginal,
                  totalRemainingVulnerabilities |-> mr.remediationTotalRemaining ]
           ELSE Undefined]

\* const delay = rateLimit[modelConfig.provider] || defaultDelay
RateLimitDelay(c, provider) ==
    IF provider \in DOMAIN c.rateLimit /\ c.rateLimit[provider] # 0
    THEN c.rateLimit[provider]
    ELSE IF provider \in {"google", "gemini-cli"} THEN 1000 ELSE 500

\* await new Promise((r) => setTimeout(r, delay))
AwaitTimer(r, delay) == [r EXCEPT !.waited = @ + delay]

\* an external call (generateCode, remediateCode) is started: the timer delay
\* awaited since the start of the runner's previous external call is noted
CallStarts(r) == [r EXCEPT !.gaps = @ \cup {r.waited}, !.waited = 0]

\* the rate-limit delay, the loop increments, byPrompt.push(promptResults) and,
\* after the last prompt, the model-level stats and the return
EndOfIteration(r0, mr) ==
    IF r0.pc = "rejected" THEN [runner |-> r0, modelResults |-> mr]
    ELSE LET r == AwaitTimer(r0, RateLimitDelay(cfg, r0.provider))
    IN  IF r.i + 1 < cfg.iterationsPerPrompt
    THEN [ runner |-> CallStarts([r EXCEPT !.i = @ + 1, !.pc = "generate",
                                           !.violations = <<>>]),
           modelResults |-> mr ]
    ELSE LET pushed == [mr EXCEPT !.byPrompt = Append(@, r.promptResults)]
         IN  IF r.pi < Len(Prompts)
             THEN [ runner |-> CallStarts(
                                 [r EXCEPT !.pi = @ + 1, !.i = 0, !.pc = "generate",
                                           !.violations = <<>>,
                                           !.promptResults = NewPromptResults(Prompts[r.pi + 1])]),
                    modelResults |-> pushed ]
             ELSE [ runner |-> [r EXCEPT !.pc = "returned", !.violations = <<>>,
                                         !.promptResults = Undefined],
                    modelResults |-> Finalize(pushed) ]

\* modelResults.totalFunctions++ ... promptResults.iterations.push({...})
FoldAnalysis(mr, violations) ==
    [mr EXCEPT
       !.totalFunctions = @ + 1,
       !.functionsWithVulnerabilities = IF Len(violations) > 0 THEN @ + 1 ELSE @,
       !.totalVulnerabilities = @ + Len(violations)]

IterationRecord(i, violations) ==
    [ iteration          |-> i + 1,
      hasVulnerabilities |-> Len(violations) > 0,
      vulnerabilityCount |-> Len(violations),
      violations         |-> violations,
      remediation        |-> Undefined ]

\* mutant: remediationFullyFixed grows by the number of findings fixed
FoldRemediationByCount(mr, violations, fixedViolations) ==
    [mr EXCEPT
       !.remediationAttempts = @ + 1,
       !.remediationFullyFixed = @ + (Len(violations) - Len(fixedViolations)),
       !.remediationTotalOriginal = @ + Len(violations),
       !.remediationTotalRemaining = @ + Len(fixedViolations)]

\* modelResults.remediationAttempts++ ...
FoldRemediation(mr, violations, fixedViolations) ==
    [mr EXCEPT
       !.remediationAttempts = @ + 1,
       !.remediationFullyFixed = @ + (IF Len(fixedViolations) = 0 THEN 1 ELSE 0),
       !.remediationTotalOriginal = @ + Len(violations),
       !.remediationTotalRemaining = @ + Len(fixedViolations)]

RemediationRecord(violations, fixedViolations) ==
    [ originalVulnerabilityCount  |-> Len(violations),
      remainingVulnerabilityCount |-> Len(fixedViolations),
      fixedAllVulnerabilities     |-> Len(fixedViolations) = 0,
      remainingViolations         |-> fixedViolations ]

\* ------------------------------------------------------------------------
\* runBenchmark: pre-seed, grouping, chunks, merge, summary
\* ------------------------------------------------------------------------
NoSummary == [none |-> TRUE]

\* for (const [modelId, modelResults] of Object.entries(resumeModels))
\*   results.models[modelId] = modelResults
RECURSIVE AssignAll(_, _)
AssignAll(o, entries) ==
    IF entries = <<>> THEN o
    ELSE AssignAll(ObjSet(o, entries[1].key, entries[1].value), Tail(entries))

PreSeed(c, resumed) ==
    IF c.resume /\ Len(resumed) > 0 THEN AssignAll(<<>>, resumed) ELSE <<>>

\* the console.log of the pre-seed loop reads modelResults.vulnerabilityRate:
\* a TypeError when modelResults is undefined
PreSeedThrows(c, resumed) ==
    c.resume /\ \E j \in DOMAIN resumed : ~Truthy(resumed[j].value)

\* mutant: resumed models are grouped and run like the others
NeverResumed(resumed, modelId) == FALSE

\* if (resumeModels[modelId]) continue
IsResumed(resumed, modelId) == Truthy(ObjGet(resumed, modelId))

\* providerGroups[provider].push(modelId), for the list entries 1..n
RECURSIVE ProviderGroups(_, _, _)
ProviderGroups(models, resumed, n) ==
    IF n = 0 THEN <<>>
    ELSE LET before   == ProviderGroups(models, resumed, n - 1)
             provider == Provider(models[n])
             members  == IF ObjHas(before, provider) THEN ObjGet(before, provider) ELSE <<>>
         IN  IF IsResumed(resumed, models[n]) THEN before
             ELSE ObjSet(before, provider, Append(members, n))

\* concurrency[provider] || 1
EffectiveConcurrency(c, provider) ==
    IF c.concurrency[provider] = 0 THEN 1 ELSE c.concurrency[provider]

\* the index array.slice takes for the argument n: a negative n counts from
\* the end, and the result is clamped to 0..len
SliceIndex(len, n) ==
    IF n < 0 THEN (IF len + n < 0 THEN 0 ELSE len + n) ELSE Min(n, len)

\* array.slice(from, to): empty when the end is not after the start
Slice(arr, from, to) ==
    LET first == SliceIndex(Len(arr), from)
        final == SliceIndex(Len(arr), to)
    IN  IF final <= first THEN <<>> ELSE SubSeq(arr, first + 1, final)

\* mutant: the chunk is every model from i on
ChunkOfRest(modelIds, i, maxConcurrency) == Slice(modelIds, i, Len(modelIds))

\* const chunk = modelIds.slice(i, i + maxConcurrency)
ChunkOf(modelIds, i, maxConcurrency) == Slice(modelIds, i, i + maxConcurrency)

\* runModelsWithConcurrency(providerGroups[provider], concurrency[provider] || 1)
\* up to its first await
StartGroup(c, entry) ==
    LET maxConcurrency == EffectiveConcurrency(c, entry.key)
    IN  [ provider       |-> entry.key,
          modelIds       |-> entry.value,
          maxConcurrency |-> maxConcurrency,
          i              |-> 0,
          chunk          |-> ChunkOf(entry.value, 0, maxConcurrency),
          outcomes       |-> <<>>,
          done           |-> FALSE ]

\* the list entries whose runSingleModel call is made by the chunks in gs
Called(gs) == UNION {Range(gs[g].chunk) : g \in DOMAIN gs}

\* const streamOutput = chunk.length === 1
StreamOutput(chunk) == Len(chunk) = 1

\* chunk.map((modelId) => runSingleModel(modelId, { streamOutput }))
CallChunk(rs, chunk) ==
    [k \in DOMAIN rs |->
        IF k \in Range(chunk)
        THEN [rs[k] EXCEPT !.pc = "called", !.streamOutput = StreamOutput(chunk)]
        ELSE rs[k]]

\* the first chunk of every group in gs[1..n] is called
RECURSIVE CallChunks(_, _, _)
CallChunks(rs, gs, n) ==
    IF n = 0 THEN rs ELSE CallChunk(CallChunks(rs, gs, n - 1), gs[n].chunk)

\* what runSingleModel resolves to for list entry k
Outcome(k) ==
    [ modelId      |-> cfg.models[k],
      skipped      |-> runner[k].skipped,
      modelResults |-> IF runner[k].skipped THEN Undefined
                       ELSE heap[ModelResultsOf(k)] ]

\* mutant: every outcome is checkpointed
AlwaysSave(outcome) == TRUE

\* mutant: a provider none of whose functions was generated is not checkpointed
ShouldSaveIfGenerated(outcome) ==
    /\ ~outcome.skipped
    /\ Truthy(outcome.modelResults)
    /\ outcome.modelResults.totalFunctions > 0

\* if (!outcome.skipped && outcome.modelResults)
ShouldSave(outcome) == ~outcome.skipped /\ Truthy(outcome.modelResults)

\* for (const outcome of chunkResults) if (...) saveCheckpoint(...)
RECURSIVE SaveChunk(_, _)
SaveChunk(store, chunk) ==
    IF chunk = <<>> THEN store
    ELSE LET outcome == Outcome(chunk[1])
         IN  SaveChunk(IF ShouldSave(outcome)
                       THEN saveCheckpoint(store, outcome.modelId, outcome.modelResults, cfg)
                       ELSE store,
                       Tail(chunk))

SavedInChunk(chunk, modelId) ==
    Cardinality({j \in DOMAIN chunk :
                    /\ Outcome(chunk[j]).modelId = modelId
                    /\ ShouldSave(Outcome(chunk[j]))})

\* mutant: the chunk is taken as settled when its first runner returns
ChunkSettledAny(g) == \E k \in Range(groups[g].chunk) : runner[k].pc = "returned"

\* await Promise.all(chunk.map((modelId) => runSingleModel(modelId, ...)))
ChunkSettled(g) == \A k \in Range(groups[g].chunk) : runner[k].pc = "returned"

\* groupResults.flat()
RECURSIVE Flat(_)
Flat(gs) == IF gs = <<>> THEN <<>> ELSE gs[1].outcomes \o Flat(Tail(gs))

\* new Map(allOutcomes.map((o) => [o.modelId, o])).get(modelId): the last one wins
OutcomeMapGet(allOutcomes, modelId) ==
    LET hits == {j \in DOMAIN allOutcomes : cfg.models[allOutcomes[j]] = modelId}
    IN  IF hits = {} THEN Undefined
        ELSE Outcome(allOutcomes[CHOOSE j \in hits : \A h \in hits : h <= j])

\* for (const modelId of models) { ... results.models[modelId] = outcome.modelResults }
RECURSIVE MergeOutcomes(_, _, _)
MergeOutcomes(o, allOutcomes, n) ==
    IF n = 0 THEN o
    ELSE LET before  == MergeOutcomes(o, allOutcomes, n - 1)
             modelId == cfg.models[n]
             outcome == OutcomeMapGet(allOutcomes, modelId)
         IN  IF IsResumed(resumeModels, modelId) THEN before
             ELSE IF ~Truthy(outcome) THEN before
             ELSE IF outcome.skipped THEN before
             ELSE ObjSet(before, modelId, outcome.modelResults)

RECURSIVE SumField(_, _)
SumField(o, field) ==
    IF o = <<>> THEN 0 ELSE field[o[1].value] + SumField(Tail(o), field)

\* the cross-model summary; left unset when no model has a result
Summarize(o) ==
    IF Len(o) = 0 THEN NoSummary
    ELSE [ totalModels          |-> Len(o),
           totalFunctions       |-> SumField(o, [v \in {o[k].value : k \in DOMAIN o}
                                                   |-> v.totalFunctions]),
           totalVulnerabilities |-> SumField(o, [v \in {o[k].value : k \in DOMAIN o}
                                                   |-> v.totalVulnerabilities]) ]

\* ------------------------------------------------------------------------
\* Actions
\* ------------------------------------------------------------------------
Slots == DOMAIN cfg.models

\* runBenchmark from its call to its first await (or to its return when every
\* model was resumed)
RunBenchmark ==
    /\ phase = "start"
    /\ LET seeded         == PreSeed(cfg, resumeModels)
           providerGroups == ProviderGroups(cfg.models, resumeModels, Len(cfg.models))
           started        == [g \in DOMAIN providerGroups |-> StartGroup(cfg, providerGroups[g])]
       IN  IF PreSeedThrows(cfg, resumeModels)
           THEN \* runBenchmark rejects; main().catch(console.error)
                /\ resultsModels' = seeded
                /\ phase' = "aborted"
                /\ UNCHANGED <<summary, groups, runner>>
           ELSE IF Len(providerGroups) = 0
           THEN /\ resultsModels' = seeded
                /\ summary' = Summarize(seeded)
                /\ phase' = "done"
                /\ UNCHANGED <<groups, runner>>
           ELSE /\ resultsModels' = seeded
                /\ groups' = started
                /\ runner' = CallChunks(runner, started, Len(started))
                /\ phase' = "running"
                /\ UNCHANGED summary
    /\ UNCHANGED <<cfg, checkpoints, resumeModels, heap, calls, saves, runsLeft>>
    /\ UNCHANGED <<classifyVars, hydraVars, statVars>>

\* runSingleModel(modelId) from its call to its first await: the prerequisite
\* check, the new modelResults, the first generateCode call
RunnerStart(k) ==
    /\ phase = "running"
    /\ runner[k].pc = "called"
    /\ \/ \* google model without GEMINI_API_KEY / GOOGLE_API_KEY
          /\ Provider(cfg.models[k]) = "google"
          /\ runner' = [runner EXCEPT ![k].pc = "returned", ![k].skipped = TRUE]
          /\ UNCHANGED heap
       \/ \E transport \in {"up", "down"} :
          /\ heap' = [heap EXCEPT ![ModelResultsOf(k)] =
                         IF Len(Prompts) = 0 THEN Finalize(NewModelResults)
                         ELSE NewModelResults]
          /\ runner' = [runner EXCEPT ![k] =
                         IF Len(Prompts) = 0
                         THEN [@ EXCEPT !.pc = "returned", !.transport = transport,
                                        !.provider = Provider(cfg.models[k])]
                         ELSE [@ EXCEPT !.pc = "generate", !.transport = transport,
                                        !.provider = Provider(cfg.models[k]),
                                        !.pi = 1, !.i = 0,
                                        !.promptResults = NewPromptResults(Prompts[1])]]
    /\ UNCHANGED <<cfg, phase, checkpoints, resumeModels, resultsModels, summary,
                   groups, calls, saves, runsLeft>>
    /\ UNCHANGED <<classifyVars, hydraVars, statVars>>

\* one external call of runner k has settled and the runner has run on to its
\* next await
RunnerStep(k, out) ==
    /\ runner' = [runner EXCEPT ![k] = out.runner]
    /\ heap' = [heap EXCEPT ![ModelResultsOf(k)] = out.modelResults]
    /\ calls' = [calls EXCEPT ![k] = @ + 1]
    /\ UNCHANGED <<cfg, phase, checkpoints, resumeModels, resultsModels, summary,
                   groups, saves, runsLeft>>
    /\ UNCHANGED <<classifyVars, hydraVars, statVars>>

\* await generateCode(...)
GenerateReturns(k) ==
    /\ phase = "running"
    /\ runner[k].pc = "generate"
    /\ LET r   == runner[k]
           mr  == heap[ModelResultsOf(k)]
           res == generateCode(cfg.models[k], Prompts[r.pi], r.i,
                               cfg.securityContext, r.transport)
       IN  IF res.threw
           THEN RunnerStep(k, EndOfIteration(CatchIterationError(r, res.message), mr))
           ELSE RunnerStep(k, [runner |-> [r EXCEPT !.pc = "analyze"], modelResults |-> mr])

\* await analyzeWithESLint(code, ...) and the fold of its findings
AnalyzeReturns(k) ==
    /\ phase = "running"
    /\ runner[k].pc = "analyze"
    /\ LET r   == runner[k]
           mr  == heap[ModelResultsOf(k)]
           res == analyzeWithESLint(cfg.models[k], Prompts[r.pi], r.i, cfg.securityContext)
       IN  IF res.threw
           THEN RunnerStep(k, EndOfIteration(CatchIterationError(r, res.message), mr))
           ELSE LET folded   == FoldAnalysis(mr, res.value)
                    recorded == PushIteration(r, IterationRecord(r.i, res.value))
                IN  IF cfg.enableRemediation /\ Len(res.value) > 0
                    THEN RunnerStep(k, [runner |-> CallStarts(
                                                      [recorded EXCEPT !.pc = "remediate",
                                                                       !.violations = res.value]),
                                        modelResults |-> folded])
                    ELSE RunnerStep(k, EndOfIteration(recorded, folded))

\* await remediateCode(code, violations, modelConfig)
RemediateReturns(k) ==
    /\ phase = "running"
    /\ runner[k].pc = "remediate"
    /\ LET r   == runner[k]
           mr  == heap[ModelResultsOf(k)]
           res == remediateCode(cfg.models[k], Prompts[r.pi], r.i, cfg.securityContext)
       IN  IF res.threw
           THEN RunnerStep(k, EndOfIteration(SetRemediation(r, [error |-> res.message]), mr))
           ELSE RunnerStep(k, [runner |-> [r EXCEPT !.pc = "reanalyze"], modelResults |-> mr])

\* await analyzeWithESLint(fixedCode, ...) and the fold of the remediation
ReanalyzeReturns(k) ==
    /\ phase = "running"
    /\ runner[k].pc = "reanalyze"
    /\ LET r   == runner[k]
           mr  == heap[ModelResultsOf(k)]
           res == analyzeFixed(cfg.models[k], Prompts[r.pi], r.i, cfg.securityContext)
       IN  IF res.threw
           THEN RunnerStep(k, EndOfIteration(SetRemediation(r, [error |-> res.message]), mr))
           ELSE RunnerStep(k, EndOfIteration(
                    SetRemediation(r, RemediationRecord(r.violations, res.value)),
                    FoldRemediation(mr, r.violations, res.value)))

\* runModelsWithConcurrency after "await Promise.all(chunk...)": the checkpoint
\* loop, outcomes.push(...chunkResults) and the next chunk or the return
ChunkDone(g) ==
    /\ phase = "running"
    /\ ~groups[g].done
    /\ ChunkSettled(g)
    \* a loop index that runs downwards is followed for MaxSpins passes
    /\ groups[g].i + groups[g].maxConcurrency >= -MaxSpins
    /\ LET grp   == groups[g]
           nexti == grp.i + grp.maxConcurrency
           more  == nexti < Len(grp.modelIds)
           chunk == IF more THEN ChunkOf(grp.modelIds, nexti, grp.maxConcurrency) ELSE <<>>
       IN  /\ checkpoints' = SaveChunk(checkpoints, grp.chunk)
           /\ saves' = [m \in ModelIds |-> saves[m] + SavedInChunk(grp.chunk, m)]
           /\ groups' = [groups EXCEPT ![g] =
                            [grp EXCEPT !.outcomes = @ \o grp.chunk,
                                        !.i = nexti,
                                        !.chunk = chunk,
                                        !.done = ~more]]
           /\ runner' = CallChunk(runner, chunk)
    /\ UNCHANGED <<cfg, phase, resumeModels, resultsModels, summary, heap, calls, runsLeft>>
    /\ UNCHANGED <<classifyVars, hydraVars, statVars>>

\* runBenchmark after "await Promise.all(groupPromises)": merge and summary
Merge ==
    /\ phase = "running"
    /\ \A g \in DOMAIN groups : groups[g].done
    /\ LET merged == MergeOutcomes(resultsModels, Flat(groups), Len(cfg.models))
       IN  /\ resultsModels' = merged
           /\ summary' = Summarize(merged)
    /\ phase' = "done"
    /\ UNCHANGED <<cfg, checkpoints, resumeModels, groups, runner, heap, calls, saves, runsLeft>>
    /\ UNCHANGED <<classifyVars, hydraVars, statVars>>

\* ------------------------------------------------------------------------
\* The hydra runner: runHydraBenchmark, runHydraForPrompt, calculateSummary
\* ------------------------------------------------------------------------
\* largest --rounds value (maxRounds)
MaxRounds == 2

\* allPrompts of the hydra run
HydraPrompts == AllPrompts(<<"database", "authentication">>)

\* message.ruleId of a fatal parsing error
Null == "null"

\* one ESLint message
M(ruleId) == [ruleId |-> ruleId]

\* result.messages the linter can report for one file; <<M(Null)>> is the
\* report for text that does not parse
LintOutputs ==
    { <<>>,
      <<M(Null)>>,
      <<M("A"), M("B")>>,
      <<M("B"), M("C")>>,
      <<M("A"), M("A"), M("A")>> }

\* for (const message of result.messages) { if (!message.ruleId) continue;
\*   violations.push({ruleId: message.ruleId, ...}) }
LintViolations(messages) == SelectSeq(messages, LAMBDA m : m.ruleId # Null)

HasParseError(messages) == \E k \in DOMAIN messages : messages[k].ruleId = Null

HydraIdle ==
    [ pc                |-> "idle",
      maxRounds         |-> 0,
      p                 |-> 0,
      round             |-> 0,
      generations       |-> <<>>,
      currentViolations |-> <<>>,
      log               |-> <<>>,
      parseFailed       |-> {},
      prompts           |-> <<>>,
      summary           |-> NoSummary ]

\* generations.push({generation: 0, code, violations, violationCount, ruleIds})
HydraGeneration(generation, violations) ==
    [ generation     |-> generation,
      code           |-> "code",
      violations     |-> violations,
      violationCount |-> Len(violations),
      ruleIds        |-> NewSet(MapRuleId(violations)) ]

\* generations.push({generation: round, code: fixedCode, violations, ..., changes})
HydraRound(round, violations, changes) ==
    [ generation     |-> round,
      code           |-> "code",
      violations     |-> violations,
      violationCount |-> Len(violations),
      ruleIds        |-> NewSet(MapRuleId(violations)),
      changes        |-> changes ]

\* generations.push({generation, label, error: error.message})
HydraError(generation, message) == [generation |-> generation, error |-> message]

\* mutant: a failed generation is recorded as a clean generation 0
GenerationFailedClean(message) == HydraGeneration(0, <<>>)

\* catch (error) { generations.push({generation: 0, ..., error: error.message}) }
GenerationFailed(message) == HydraError(0, message)

PushGeneration(h, record) == [h EXCEPT !.generations = Append(@, record)]

\* an external call (or the linter) is started: the runner awaits it
StartCall(h, op) ==
    [h EXCEPT !.pc = op, !.log = Append(@, [op |-> op, round |-> h.round])]

\* return {promptId, generations}; results.prompts.push(promptResult) and the
\* 1000 ms timer of runHydraBenchmark
ReturnPrompt(h) ==
    [h EXCEPT !.pc = "betweenPrompts",
              !.prompts = Append(@, [ promptId    |-> HydraPrompts[h.p],
                                      generations |-> h.generations ])]

\* mutant: the test on currentViolations.length is dropped
RoundGuardLimitOnly(h, round) == round <= h.maxRounds

\* round <= maxRounds, and not: if (currentViolations.length === 0) break
RoundGuard(h, round) == round <= h.maxRounds /\ Len(h.currentViolations) > 0

\* the head of "for (let round = 1; round <= maxRounds; round++)" up to the
\* remediateWithClaude call
EnterRound(h, round) ==
    IF RoundGuard(h, round)
    THEN StartCall([h EXCEPT !.round = round], "remediate")
    ELSE ReturnPrompt(h)

\* mutant: a failed round is tried again
RoundFailedRetry(h, message) ==
    StartCall(PushGeneration(h, HydraError(h.round, message)), "remediate")

\* catch (error) { generations.push({generation: round, error}); break }
RoundFailed(h, message) ==
    ReturnPrompt(PushGeneration(h, HydraError(h.round, message)))

\* mutant: every round is compared with generation 0
PrevFindingsOfGen0(h) == h.generations[1].violations

\* classifyChanges(currentViolations, fixedViolations): currentViolations
PrevFindings(h) == h.currentViolations

\* const gens = prompt.generations.filter((g) => !g.error)
Gens(generations) == SelectSeq(generations, LAMBDA g : "error" \notin DOMAIN g)

\* gens.find((g) => g.generation === 0)
Gen0(gens) ==
    IF \E k \in DOMAIN gens : gens[k].generation = 0
    THEN gens[CHOOSE k \in DOMAIN gens :
                 /\ gens[k].generation = 0
                 /\ \A j \in DOMAIN gens : gens[j].generation = 0 => k <= j]
    ELSE Undefined

\* gens.filter((g) => g.generation > 0 && g.changes)
RemediationGens(gens) ==
    SelectSeq(gens, LAMBDA g : g.generation > 0 /\ "changes" \in DOMAIN g)

EmptyHydraSummary(prompts) ==
    [ totalPrompts             |-> Len(prompts),
      totalGenerations         |-> 0,
      totalRemediationAttempts |-> 0,
      gen0 |-> [ totalVulnerabilities       |-> 0,
                 promptsWithVulnerabilities |-> 0,
                 cleanPrompts               |-> 0 ] ]

\* one pass of "for (const prompt of results.prompts)": the totals and the
\* generation 0 statistics
SummaryOfPrompt(sm, prompt) ==
    LET gens == Gens(prompt.generations)
        gen0 == Gen0(gens)
    IN  [sm EXCEPT
           !.totalGenerations = @ + Len(gens),
           !.totalRemediationAttempts = @ + Len(RemediationGens(gens)),
           !.gen0.totalVulnerabilities =
               IF Truthy(gen0) THEN @ + gen0.violationCount ELSE @,
           !.gen0.promptsWithVulnerabilities =
               IF Truthy(gen0) /\ gen0.violationCount > 0 THEN @ + 1 ELSE @,
           !.gen0.cleanPrompts =
               IF Truthy(gen0) /\ ~(gen0.violationCount > 0) THEN @ + 1 ELSE @]

RECURSIVE SummaryOfPrompts(_, _)
SummaryOfPrompts(sm, prompts) ==
    IF prompts = <<>> THEN sm
    ELSE SummaryOfPrompts(SummaryOfPrompt(sm, prompts[1]), Tail(prompts))

calculateSummary(prompts) == SummaryOfPrompts(EmptyHydraSummary(prompts), prompts)

\* runHydraForPrompt(promptConfig, ...) up to its generateWithClaude call
StartPrompt(h, p) ==
    StartCall([h EXCEPT !.p = p, !.round = 0, !.generations = <<>>,
                        !.currentViolations = <<>>, !.log = <<>>,
                        !.parseFailed = {}],
              "generate")

HydraStep(h) ==
    /\ hydra' = h
    /\ UNCHANGED <<classifyVars, runVars, statVars>>

\* await generateWithClaude(promptConfig.prompt, modelConfig.model)
HydraGenerateReturns ==
    /\ hydra.pc = "generate"
    /\ \/ \* result.error (a timeout included) or a non-zero exit status
          HydraStep(ReturnPrompt(PushGeneration(hydra, GenerationFailed("Claude CLI failed"))))
       \/ HydraStep(StartCall(hydra, "analyze"))

\* await analyzeWithESLint(code, ...): of generation 0 (round = 0) or of the
\* fixed code of a round
HydraAnalyzeReturns ==
    /\ hydra.pc = "analyze"
    /\ \/ \* eslint.lintFiles rejects
          IF hydra.round = 0
          THEN HydraStep(ReturnPrompt(PushGeneration(hydra, HydraError(0, "lint failed"))))
          ELSE HydraStep(RoundFailed(hydra, "lint failed"))
       \/ \E messages \in LintOutputs :
             LET violations == LintViolations(messages)
                 seen == [hydra EXCEPT !.parseFailed =
                             IF HasParseError(messages) THEN @ \cup {hydra.round} ELSE @]
             IN  IF hydra.round = 0
                 THEN HydraStep(EnterRound(
                          [PushGeneration(seen, HydraGeneration(0, violations))
                              EXCEPT !.currentViolations = violations], 1))
                 ELSE HydraStep(
                          [PushGeneration(seen,
                              HydraRound(hydra.round, violations,
                                         classifyChanges(PrevFindings(hydra), violations)))
                              EXCEPT !.currentViolations = violations, !.pc = "delay"])

\* await remediateWithClaude(currentCode, currentViolations, modelConfig.model)
\* and the test for prose
HydraRemediateReturns ==
    /\ hydra.pc = "remediate"
    /\ \/ HydraStep(RoundFailed(hydra, "Claude CLI failed"))
       \/ \* none of "function", "const ", "=>" in fixedCode
          HydraStep(ReturnPrompt(PushGeneration(hydra,
              HydraError(hydra.round, "Model returned prose instead of code"))))
       \/ HydraStep(StartCall(hydra, "analyze"))

\* await new Promise((r) => setTimeout(r, 500)); round++
HydraDelay ==
    /\ hydra.pc = "delay"
    /\ HydraStep(EnterRound(hydra, hydra.round + 1))

\* runHydraBenchmark after its 1000 ms timer: the next prompt, or
\* calculateSummary(results) and the return
HydraNextPrompt ==
    /\ hydra.pc = "betweenPrompts"
    /\ IF hydra.p < Len(HydraPrompts)
       THEN HydraStep(StartPrompt(hydra, hydra.p + 1))
       ELSE HydraStep([hydra EXCEPT !.pc = "done",
                                    !.summary = calculateSummary(hydra.prompts)])

\* ------------------------------------------------------------------------
\* JavaScript Number arithmetic (IEEE 754 binary64, round to nearest, ties to
\* even).  A natural number is a sequence of limbs in base 2^LimbBits, least
\* significant first, without leading zero limbs; <<>> is 0.  A Number is
\* [kind, sign, m, e]: for kind "num" its value is (-1)^sign * m * 2^e with
\* m = <<>> (zero) or 2^52 <= m < 2^53.  Subnormals and overflow are out of
\* the range of the statistics functions.
\* ------------------------------------------------------------------------
MantissaBits == 53

Base == 2 ^ 15

\* bits of one limb
LimbBits == CHOOSE k \in 1..30 : 2 ^ k = Base

Max(a, b) == IF a >= b THEN a ELSE b

Norm(a) ==
    LET nz == {i \in DOMAIN a : a[i] # 0}
    IN  IF nz = {} THEN <<>>
        ELSE SubSeq(a, 1, CHOOSE i \in nz : \A j \in nz : j <= i)

RECURSIVE NatOf(_)
NatOf(n) == IF n = 0 THEN <<>> ELSE <<n % Base>> \o NatOf(n \div Base)

Limb(a, i) == IF i <= Len(a) THEN a[i] ELSE 0

RECURSIVE AddFrom(_, _, _, _)
AddFrom(a, b, i, carry) ==
    IF i > Max(Len(a), Len(b)) THEN (IF carry = 0 THEN <<>> ELSE <<carry>>)
    ELSE LET t == Limb(a, i) + Limb(b, i) + carry
         IN  <<t % Base>> \o AddFrom(a, b, i + 1, t \div Base)

NatAdd(a, b) == AddFrom(a, b, 1, 0)

RECURSIVE SubFrom(_, _, _, _)
SubFrom(a, b, i, borrow) ==
    IF i > Len(a) THEN <<>>
    ELSE LET t == Limb(a, i) - Limb(b, i) - borrow
         IN  IF t < 0 THEN <<t + Base>> \o SubFrom(a, b, i + 1, 1)
             ELSE <<t>> \o SubFrom(a, b, i + 1, 0)

\* a - b for a >= b
NatSub(a, b) == Norm(SubFrom(a, b, 1, 0))

NatLess(a, b) ==
    IF Len(a) # Len(b) THEN Len(a) < Len(b)
    ELSE \E i \in DOMAIN a :
            /\ a[i] < b[i]
            /\ \A j \in DOMAIN a : j > i => a[j] = b[j]

RECURSIVE MulSmallFrom(_, _, _, _)
MulSmallFrom(a, k, i, carry) ==
    IF i > Len(a) THEN (IF carry = 0 THEN <<>> ELSE <<carry>>)
    ELSE LET t == a[i] * k + carry
         IN  <<t % Base>> \o MulSmallFrom(a, k, i + 1, t \div Base)

\* a * k for one limb k
NatMulSmall(a, k) == IF k = 0 THEN <<>> ELSE MulSmallFrom(a, k, 1, 0)

LimbShift(a, n) == IF a = <<>> THEN <<>> ELSE [i \in 1..n |-> 0] \o a

RECURSIVE MulFrom(_, _, _)
MulFrom(a, b, i) ==
    IF i > Len(b) THEN <<>>
    ELSE NatAdd(LimbShift(NatMulSmall(a, b[i]), i - 1), MulFrom(a, b, i + 1))

NatMul(a, b) == MulFrom(a, b, 1)

\* 2^k
Pow2(k) == LimbShift(<<2 ^ (k % LimbBits)>>, k \div LimbBits)

BitLength(a) ==
    IF a = <<>> THEN 0
    ELSE LimbBits * (Len(a) - 1)
           + (CHOOSE k \in 1..LimbBits : 2 ^ (k - 1) <= a[Len(a)] /\ a[Len(a)] < 2 ^ k)

\* the largest limb d in lo..hi with b * d <= r
RECURSIVE QuotientLimb(_, _, _, _)
QuotientLimb(b, r, lo, hi) ==
    IF lo = hi THEN lo
    ELSE LET mid == (lo + hi + 1) \div 2
         IN  IF NatLess(r, NatMulSmall(b, mid)) THEN QuotientLimb(b, r, lo, mid - 1)
             ELSE QuotientLimb(b, r, mid, hi)

\* long division from the top limb of a: [q, r] with a = q * b + r, r < b
RECURSIVE DivFrom(_, _, _, _, _)
DivFrom(a, b, i, rem, q) ==
    IF i = 0 THEN [q |-> Norm(q), r |-> rem]
    ELSE LET \* d is the next limb of the quotient of the running remainder r2
             Step(r2, d) ==
                 IF d = 0 THEN DivFrom(a, b, i - 1, r2, <<0>> \o q)
                 ELSE DivFrom(a, b, i - 1, NatSub(r2, NatMulSmall(b, d)), <<d>> \o q)
             BringDown(r2) == Step(r2, QuotientLimb(b, r2, 0, Base - 1))
         IN  BringDown(Norm(<<a[i]>> \o rem))

NatDivMod(a, b) == DivFrom(a, b, Len(a), <<>>, <<>>)

\* Newton iteration from x >= sqrt(a), decreasing to floor(sqrt(a))
RECURSIVE SqrtFrom(_, _)
SqrtFrom(a, x) ==
    LET Improve(y) == IF NatLess(y, x) THEN SqrtFrom(a, y) ELSE x
    IN  Improve(NatDivMod(NatAdd(x, NatDivMod(a, x).q), <<2>>).q)

\* [q, r] with a = q * q + r and a < (q + 1) * (q + 1), for a > 0
NatSqrt(a) ==
    LET WithRest(q) == [q |-> q, r |-> NatSub(a, NatMul(q, q))]
    IN  WithRest(SqrtFrom(a, Pow2((BitLength(a) + 1) \div 2)))

NaN == [kind |-> "nan", sign |-> 0, m |-> <<>>, e |-> 0]

Infinity(sign) == [kind |-> "inf", sign |-> sign, m |-> <<>>, e |-> 0]

Num(sign, m, e) == [kind |-> "num", sign |-> sign, m |-> m, e |-> e]

Zero == Num(0, <<>>, 0)

IsZero(x) == x.kind = "num" /\ x.m = <<>>

\* the Number nearest to (mag + sticky) * 2^e, ties to even; sticky stands
\* for a discarded non-zero fraction below the last bit of mag
RoundToNumber(sign, mag, e, sticky) ==
    IF mag = <<>> THEN Num(sign, <<>>, 0)
    ELSE LET \* q1 is mag without its last k bits, rounded
             Pack(q1, k) ==
                 IF BitLength(q1) > MantissaBits
                 THEN Num(sign, NatDivMod(q1, <<2>>).q, e + k + 1)
                 ELSE Num(sign, q1, e + k)
             Up(d, half) ==
                 \/ NatLess(half, d.r)
                 \/ d.r = half /\ (sticky \/ d.q[1] % 2 = 1)
             Cut(d, half, k) ==
                 Pack(IF Up(d, half) THEN NatAdd(d.q, <<1>>) ELSE d.q, k)
             Fit(len) ==
                 IF len <= MantissaBits
                 THEN Num(sign, NatMul(mag, Pow2(MantissaBits - len)),
                          e - (MantissaBits - len))
                 ELSE Cut(NatDivMod(mag, Pow2(len - MantissaBits)),
                          Pow2(len - MantissaBits - 1), len - MantissaBits)
         IN  Fit(BitLength(mag))

\* an integer of the program as a Number
FromInt(n) ==
    IF n >= 0 THEN RoundToNumber(0, NatOf(n), 0, FALSE)
    ELSE RoundToNumber(1, NatOf(0 - n), 0, FALSE)

Neg(x) == [x EXCEPT !.sign = 1 - x.sign]

\* x + y
FAdd(x, y) ==
    IF x.kind = "nan" \/ y.kind = "nan" THEN NaN
    ELSE IF x.kind = "inf" /\ y.kind = "inf"
         THEN (IF x.sign = y.sign THEN x ELSE NaN)
    ELSE IF x.kind = "inf" THEN x
    ELSE IF y.kind = "inf" THEN y
    ELSE IF IsZero(x) THEN (IF IsZero(y) /\ x.sign # y.sign THEN Zero ELSE y)
    ELSE IF IsZero(y) THEN x
    ELSE LET \* a and b are the magnitudes of x and y in units of 2^e
             Sum(a, b, e) ==
                 IF x.sign = y.sign THEN RoundToNumber(x.sign, NatAdd(a, b), e, FALSE)
                 ELSE IF a = b THEN Zero
                 ELSE IF NatLess(a, b) THEN RoundToNumber(y.sign, NatSub(b, a), e, FALSE)
                 ELSE RoundToNumber(x.sign, NatSub(a, b), e, FALSE)
             Align(e) ==
                 Sum(NatMul(x.m, Pow2(x.e - e)), NatMul(y.m, Pow2(y.e - e)), e)
         IN  Align(Min(x.e, y.e))

\* x - y
FSub(x, y) == FAdd(x, Neg(y))

\* x * y
FMul(x, y) ==
    IF x.kind = "nan" \/ y.kind = "nan" THEN NaN
    ELSE IF x.kind = "inf" \/ y.kind = "inf"
         THEN (IF IsZero(x) \/ IsZero(y) THEN NaN
               ELSE Infinity((x.sign + y.sign) % 2))
    ELSE RoundToNumber((x.sign + y.sign) % 2, NatMul(x.m, y.m), x.e + y.e, FALSE)

\* x / y
FDiv(x, y) ==
    IF x.kind = "nan" \/ y.kind = "nan" THEN NaN
    ELSE IF x.kind = "inf"
         THEN (IF y.kind = "inf" THEN NaN ELSE Infinity((x.sign + y.sign) % 2))
    ELSE IF y.kind = "inf" THEN Num((x.sign + y.sign) % 2, <<>>, 0)
    ELSE IF IsZero(y)
         THEN (IF IsZero(x) THEN NaN ELSE Infinity((x.sign + y.sign) % 2))
    ELSE IF IsZero(x) THEN Num((x.sign + y.sign) % 2, <<>>, 0)
    ELSE LET Quotient(d) ==
                 RoundToNumber((x.sign + y.sign) % 2, d.q,
                               x.e - y.e - (MantissaBits + 3), d.r # <<>>)
         IN  Quotient(NatDivMod(NatMul(x.m, Pow2(MantissaBits + 3)), y.m))

\* Math.sqrt(x)
FSqrt(x) ==
    IF x.kind = "nan" THEN NaN
    ELSE IF IsZero(x) THEN x
    ELSE IF x.sign = 1 THEN NaN
    ELSE IF x.kind = "inf" THEN x
    ELSE LET Root(s, k) == RoundToNumber(0, s.q, (x.e - k) \div 2, s.r # <<>>)
             Scaled(k) == Root(NatSqrt(NatMul(x.m, Pow2(k))), k)
         IN  Scaled(MantissaBits + 3 + ((x.e + MantissaBits + 3) % 2))

\* x < y
FLess(x, y) ==
    IF x.kind = "nan" \/ y.kind = "nan" THEN FALSE
    ELSE LET Negative(d) == d.kind # "nan" /\ ~IsZero(d) /\ d.sign = 1
         IN  Negative(FSub(x, y))

\* x <= y
FLessEq(x, y) ==
    IF x.kind = "nan" \/ y.kind = "nan" THEN FALSE
    ELSE ~FLess(y, x)

\* Math.max(x, y)
FMax(x, y) ==
    IF x.kind = "nan" \/ y.kind = "nan" THEN NaN
    ELSE IF FLess(x, y) THEN y ELSE x

\* Math.min(x, y)
FMin(x, y) ==
    IF x.kind = "nan" \/ y.kind = "nan" THEN NaN
    ELSE IF FLess(y, x) THEN y ELSE x

\* function wilsonScoreInterval(successes, n, z = 1.96)
wilsonScoreInterval(successes, n) ==
    IF n = 0 THEN [lower |-> Zero, upper |-> Zero, point |-> Zero]
    ELSE LET \* return { lower: ..., upper: ..., point: p * 100 }
             Interval(p, center, margin) ==
                 [ lower |-> FMax(Zero, FMul(FSub(center, margin), FromInt(100))),
                   upper |-> FMin(FromInt(100), FMul(FAdd(center, margin), FromInt(100))),
                   point |-> FMul(p, FromInt(100)) ]
             \* const center = ..., const margin = ...; zz is z * z
             CenterAndMargin(z, N, p, zz, denominator) ==
                 Interval(p,
                          FDiv(FAdd(p, FDiv(zz, FMul(FromInt(2), N))), denominator),
                          FDiv(FMul(z,
                                    FSqrt(FAdd(FDiv(FMul(p, FSub(FromInt(1), p)), N),
                                               FDiv(zz, FMul(FMul(FromInt(4), N), N))))),
                               denominator))
             \* const denominator = 1 + (z * z) / n
             Denominator(z, N, p, zz) ==
                 CenterAndMargin(z, N, p, zz, FAdd(FromInt(1), FDiv(zz, N)))
             \* const p = successes / n
             Proportion(z, N) ==
                 Denominator(z, N, FDiv(FromInt(successes), N), FMul(z, z))
         IN  Proportion(FDiv(FromInt(196), FromInt(100)), FromInt(n))

\* Math.round(x)
FRound(x) ==
    IF x.kind # "num" \/ IsZero(x) \/ x.e >= 0 THEN x
    ELSE IF 0 - x.e > MantissaBits + 1 THEN Num(x.sign, <<>>, 0)
    ELSE LET Up(d, half) ==
                 IF x.sign = 0 THEN ~NatLess(d.r, half) ELSE NatLess(half, d.r)
             Nearest(d, half) ==
                 RoundToNumber(x.sign, IF Up(d, half) THEN NatAdd(d.q, <<1>>) ELSE d.q,
                               0, FALSE)
         IN  Nearest(NatDivMod(x.m, Pow2(0 - x.e)), Pow2(0 - x.e - 1))

\* a decimal literal with three decimals, given in thousandths
Literal3(thousandths) == FDiv(FromInt(thousandths), FromInt(1000))

\* const criticalValues = { 1: 3.841, 2: 5.991, 3: 7.815, 4: 9.488, 5: 11.07 },
\* in thousandths
CriticalValues == <<3841, 5991, 7815, 9488, 11070>>

\* criticalValues[df] || 5.991
CriticalValueOr(df) ==
    IF df \in DOMAIN CriticalValues THEN Literal3(CriticalValues[df]) ELSE Literal3(5991)

\* observed.reduce((s, o, i) => s + Math.pow(o - expected[i], 2) / expected[i], 0)
\* for one model; Math.pow(d, 2) is taken as d * d
ChiTerm(group, totalSuccesses, totalFailures, grandTotal) ==
    LET \* Math.pow(o - expected[i], 2) / expected[i]
        Squared(d, expected) == FDiv(FMul(d, d), expected)
        Term(o, expected) == Squared(FSub(o, expected), expected)
    IN  FAdd(FAdd(Zero,
                  \* observed[0] = successes, expected[0] = total * totalSuccesses / grandTotal
                  Term(FromInt(group.successes),
                       FDiv(FromInt(group.total * totalSuccesses), FromInt(grandTotal)))),
             \* observed[1] = total - successes, expected[1] = total * totalFailures / grandTotal
             Term(FromInt(group.total - group.successes),
                  FDiv(FromInt(group.total * totalFailures), FromInt(grandTotal))))

\* models.forEach((m) => { chiSq += ... }) over the first k models
RECURSIVE ChiSqUpTo(_, _, _, _, _)
ChiSqUpTo(modelData, k, totalSuccesses, totalFailures, grandTotal) ==
    IF k = 0 THEN Zero
    ELSE FAdd(ChiSqUpTo(modelData, k - 1, totalSuccesses, totalFailures, grandTotal),
              ChiTerm(modelData[k], totalSuccesses, totalFailures, grandTotal))

\* function chiSquaredTest(modelData); modelData lists the {successes, total}
\* of its keys in key order
chiSquaredTest(modelData) ==
    IF Len(modelData) < 2
    THEN [chiSquared |-> Zero, df |-> 0, pValue |-> "1", significant |-> FALSE]
    ELSE LET \* return { chiSquared: Math.round(chiSq * 1000) / 1000, df, ... }
             Report(chiSq, df, significant) ==
                 [ chiSquared  |-> FDiv(FRound(FMul(chiSq, FromInt(1000))), FromInt(1000)),
                   df          |-> df,
                   pValue      |-> IF significant THEN "< 0.05" ELSE "> 0.05",
                   significant |-> significant ]
             \* const significant = chiSq > (criticalValues[df] || 5.991)
             Significance(chiSq, df) ==
                 Report(chiSq, df, FLess(CriticalValueOr(df), chiSq))
             \* const grandTotal = totalSuccesses + totalFailures; const df = ...
             Statistic(totalSuccesses, totalFailures) ==
                 Significance(ChiSqUpTo(modelData, Len(modelData), totalSuccesses,
                                        totalFailures, totalSuccesses + totalFailures),
                              Len(modelData) - 1)
         IN  Statistic(ReduceSum(modelData, [g \in Range(modelData) |-> g.successes]),
                       ReduceSum(modelData,
                                 [g \in Range(modelData) |-> g.total - g.successes]))

\* ------------------------------------------------------------------------
\* Calls of the statistics functions
\* ------------------------------------------------------------------------
MaxSample == 12

MaxTotal == 1

MaxMixed == 3

MaxGroups == 7

NoResult == [none |-> TRUE]

\* {successes, total} of one model, 0 <= successes <= total
GroupCounts ==
    {g \in [successes : 0..MaxTotal, total : 0..MaxTotal] : g.successes <= g.total}

\* modelData of up to MaxMixed models in any mix, and of up to MaxGroups models
\* where the first j have one {successes, total} and the others another
ChiInputs ==
    SeqsUpTo(GroupCounts, MaxMixed)
      \cup {[i \in 1..n |-> IF i <= j THEN a ELSE b] :
              <<n, j, a, b>> \in {t \in (1..MaxGroups) \X (1..MaxGroups)
                                          \X GroupCounts \X GroupCounts : t[2] <= t[1]}}

\* wilsonScoreInterval(successes, n) returns
CallWilson ==
    /\ stat.op = "wilson"
    /\ stat.result = NoResult
    /\ stat' = [stat EXCEPT !.result = wilsonScoreInterval(stat.successes, stat.n)]
    /\ UNCHANGED <<classifyVars, runVars, hydraVars>>

\* chiSquaredTest(modelData) returns
CallChiSquared ==
    /\ stat.op = "chiSquared"
    /\ stat.result = NoResult
    /\ stat' = [stat EXCEPT !.result = chiSquaredTest(stat.modelData)]
    /\ UNCHANGED <<classifyVars, runVars, hydraVars>>

\* ------------------------------------------------------------------------
\* main(): the flags and the resume scan
\* ------------------------------------------------------------------------
DefaultConcurrency == [anthropic |-> 1, google |-> 1]

\* --rate-limit-anthropic / --rate-limit-google left at their defaults
DefaultRateLimit == [anthropic |-> 500, google |-> 1000]

\* --concurrency-anthropic=a (0 stands for a flag that parses to 0 or NaN);
\* the registry excerpt has one google model, whose chunks have one member
\* whatever --concurrency-google says
ConcurrencyChoices ==
    {[anthropic |-> a, google |-> 1] : a \in 0..MaxConcurrency}

ConfigsOf(lists, categoryLists, concurrencies, resumes) ==
    [ models              : lists,
      iterationsPerPrompt : 1..MaxIterations,
      categories          : categoryLists,
      enableRemediation   : BOOLEAN,
      securityContext     : BOOLEAN,
      resume              : resumes,
      concurrency         : concurrencies,
      rateLimit           : {DefaultRateLimit} ]

AnthropicEntries(models) ==
    Cardinality({k \in DOMAIN models : Provider(models[k]) = "anthropic"})

\* configurations of a run on an empty checkpoint directory (where --resume
\* finds nothing); the anthropic concurrency flag is varied where the request
\* has two anthropic models to chunk
FreshConfigs ==
    {c \in ConfigsOf(ModelLists, CategoryChoices, ConcurrencyChoices, {FALSE}) :
        AnthropicEntries(c.models) < 2 => c.concurrency = DefaultConcurrency}

\* configurations of the save-then-resume scenario: one model per transport
\* family, one prompt category, default concurrency
ResumeModelLists == {l \in ModelLists : Range(l) \subseteq {"opus-4.6", "gemini-3-flash"}}

ResumeConfigs(resume) ==
    ConfigsOf(ResumeModelLists, {<<"database">>}, {DefaultConcurrency}, {resume})

\* the state in which main() calls runBenchmark(config)
MainCalls(c, store, runs) ==
    /\ cfg = c
    /\ phase = "start"
    /\ checkpoints = store
    /\ resumeModels = ResumeScan(c, store)
    /\ resultsModels = <<>>
    /\ summary = NoSummary
    /\ groups = <<>>
    /\ runner = [k \in DOMAIN c.models |-> IdleRunner]
    /\ heap = [k \in DOMAIN c.models |-> Undefined]
    /\ calls = [k \in DOMAIN c.models |-> 0]
    /\ saves = [m \in ModelIds |-> 0]
    /\ runsLeft = runs

ClassifierIdle ==
    /\ prevViolations = <<>>
    /\ currViolations = <<>>
    /\ report = NoReport

\* one invocation of main() on an empty checkpoint directory
Init ==
    /\ ClassifierIdle
    /\ hydra = HydraIdle
    /\ stat = StatIdle
    /\ \E c \in FreshConfigs : MainCalls(c, NoCheckpoints, 0)

Next ==
    \/ RunBenchmark
    \/ \E k \in Slots : RunnerStart(k)
    \/ \E k \in Slots : GenerateReturns(k)
    \/ \E k \in Slots : AnalyzeReturns(k)
    \/ \E k \in Slots : RemediateReturns(k)
    \/ \E k \in Slots : ReanalyzeReturns(k)
    \/ \E g \in DOMAIN groups : ChunkDone(g)
    \/ Merge

Spec == Init /\ [][Next]_vars

\* ------------------------------------------------------------------------
\* The save-then-resume scenario: a first invocation on an empty checkpoint
\* directory, followed by invocations with --resume on the same directory
\* ------------------------------------------------------------------------
ResumeInit ==
    /\ ClassifierIdle
    /\ hydra = HydraIdle
    /\ stat = StatIdle
    /\ \E c \in ResumeConfigs(FALSE) : MainCalls(c, NoCheckpoints, MaxRuns - 1)

\* the process has exited; main() is invoked again with --resume
MainAgain ==
    /\ phase = "done"
    /\ runsLeft > 0
    /\ \E c \in ResumeConfigs(TRUE) :
          /\ cfg' = c
          /\ phase' = "start"
          /\ resumeModels' = ResumeScan(c, checkpoints)
          /\ resultsModels' = <<>>
          /\ summary' = NoSummary
          /\ groups' = <<>>
          /\ runner' = [k \in DOMAIN c.models |-> IdleRunner]
          /\ heap' = [k \in DOMAIN c.models |-> Undefined]
          /\ calls' = [k \in DOMAIN c.models |-> 0]
          /\ saves' = [m \in ModelIds |-> 0]
    /\ runsLeft' = runsLeft - 1
    /\ UNCHANGED checkpoints
    /\ UNCHANGED <<classifyVars, hydraVars, statVars>>

ResumeNext == Next \/ MainAgain

SpecResume == ResumeInit /\ [][ResumeNext]_vars

\* ------------------------------------------------------------------------
\* Resume on a checkpoint directory that holds malformed files
\* ------------------------------------------------------------------------
\* a file that is not JSON
Unparseable == [exists |-> TRUE, text |-> "not json"]

\* JSON without the config object
NoConfig(modelId) == [exists |-> TRUE, modelId |-> modelId, results |-> NewModelResults]

\* JSON with the fingerprint of configuration c and no results
NoResults(modelId, c) ==
    [ exists  |-> TRUE,
      modelId |-> modelId,
      config  |-> [ iterationsPerPrompt |-> c.iterationsPerPrompt,
                    categories          |-> c.categories,
                    enableRemediation   |-> c.enableRemediation,
                    securityContext     |-> c.securityContext ] ]

\* shapes of the file found at the checkpoint path of a requested model
FileShapes == {"absent", "unparseable", "noConfig", "noResults"}

FileOfShape(shape, modelId, c) ==
    CASE shape = "unparseable" -> Unparseable
      [] shape = "noConfig"    -> NoConfig(modelId)
      [] shape = "noResults"   -> NoResults(modelId, c)
      [] OTHER                 -> Absent

\* the checkpoint directory in which the file of the k-th requested model has
\* shape shapes[k] and no other file exists
MalformedStore(c, shapes) ==
    [path \in CheckpointPaths |->
        IF \E k \in DOMAIN c.models :
               path = getCheckpointPath(c.models[k], c.securityContext,
                                        c.iterationsPerPrompt)
        THEN LET k == CHOOSE k \in DOMAIN c.models :
                          path = getCheckpointPath(c.models[k], c.securityContext,
                                                   c.iterationsPerPrompt)
             IN  FileOfShape(shapes[k], c.models[k], c)
        ELSE Absent]

\* main() invoked with --resume on such a directory
MalformedInit ==
    /\ ClassifierIdle
    /\ hydra = HydraIdle
    /\ stat = StatIdle
    /\ \E c \in ResumeConfigs(TRUE) :
          \E shapes \in [DOMAIN c.models -> FileShapes] :
              MainCalls(c, MalformedStore(c, shapes), 0)

SpecMalformed == MalformedInit /\ [][Next]_vars

\* ------------------------------------------------------------------------
\* Specification of the Change Classifier alone
\* ------------------------------------------------------------------------
OrchestratorIdle ==
    /\ cfg = [ models |-> <<>>, iterationsPerPrompt |-> 1, categories |-> <<>>,
               enableRemediation |-> FALSE, securityContext |-> FALSE,
               resume |-> FALSE, concurrency |-> [anthropic |-> 1, google |-> 1],
               rateLimit |-> [anthropic |-> 500, google |-> 1000] ]
    /\ phase = "idle"
    /\ checkpoints = NoCheckpoints
    /\ resumeModels = <<>>
    /\ resultsModels = <<>>
    /\ summary = NoSummary
    /\ groups = <<>>
    /\ runner = <<>>
    /\ heap = <<>>
    /\ calls = <<>>
    /\ saves = [m \in ModelIds |-> 0]
    /\ runsLeft = 0

ClassifyInit ==
    /\ prevViolations \in FindingLists
    /\ currViolations \in FindingLists
    /\ report = NoReport
    /\ OrchestratorIdle
    /\ hydra = HydraIdle
    /\ stat = StatIdle

Classify ==
    /\ report = NoReport
    /\ report' = classifyChanges(prevViolations, currViolations)
    /\ UNCHANGED <<prevViolations, currViolations>>
    /\ UNCHANGED <<runVars, hydraVars, statVars>>

ClassifyNext == Classify

SpecClassify == ClassifyInit /\ [][ClassifyNext]_vars

\* ------------------------------------------------------------------------
\* Specification of the hydra runner alone
\* ------------------------------------------------------------------------
\* runHydraBenchmark(config) called with maxRounds in 0..MaxRounds
HydraInit ==
    /\ ClassifierIdle
    /\ OrchestratorIdle
    /\ stat = StatIdle
    /\ \E maxRounds \in 0..MaxRounds :
          hydra = StartPrompt([HydraIdle EXCEPT !.maxRounds = maxRounds], 1)

HydraNext ==
    \/ HydraGenerateReturns
    \/ HydraAnalyzeReturns
    \/ HydraRemediateReturns
    \/ HydraDelay
    \/ HydraNextPrompt

SpecHydra == HydraInit /\ [][HydraNext]_vars

\* ------------------------------------------------------------------------
\* Specifications of the statistics functions alone
\* ------------------------------------------------------------------------
WilsonInit ==
    /\ ClassifierIdle
    /\ OrchestratorIdle
    /\ hydra = HydraIdle
    /\ \E n \in 0..MaxSample : \E successes \in 0..n :
          stat = [op |-> "wilson", successes |-> successes, n |-> n, result |-> NoResult]

SpecWilson == WilsonInit /\ [][CallWilson]_vars

ChiInit ==
    /\ ClassifierIdle
    /\ OrchestratorIdle
    /\ hydra = HydraIdle
    /\ \E modelData \in ChiInputs :
          stat = [op |-> "chiSquared", modelData |-> modelData, result |-> NoResult]

SpecChi == ChiInit /\ [][CallChiSquared]_vars

\* ------------------------------------------------------------------------
\* Claims about the Change Classifier
\* ------------------------------------------------------------------------
ruleIdsOf(violations) == {violations[k].ruleId : k \in DOMAIN violations}

NoDup(s) == \A j, k \in DOMAIN s : s[j] = s[k] => j = k

\* C1: the fixed, persisted and introduced rule-id sets of classifyChanges(P, C)
\* are pairwise disjoint, fixed \cup persisted is the set of rule ids of P and
\* introduced \cup persisted is the set of rule ids of C.
C1_DisjointCover ==
    report # NoReport =>
        LET fx == Range(report.fixed)
            ps == Range(report.persisted)
            nt == Range(report.introduced)
        IN  /\ fx \cap ps = {}
            /\ fx \cap nt = {}
            /\ ps \cap nt = {}
            /\ fx \cup ps = ruleIdsOf(prevViolations)
            /\ nt \cup ps = ruleIdsOf(currViolations)

\* a classified pair with repeated findings where all three sets are non-empty
C1_Witness ==
    /\ report # NoReport
    /\ report.fixed # <<>> /\ report.persisted # <<>> /\ report.introduced # <<>>
    /\ Len(prevViolations) > Cardinality(ruleIdsOf(prevViolations))

\* number of findings of rule r in a finding list (multiset multiplicity)
Mult(violations, r) == Cardinality({k \in DOMAIN violations : violations[k].ruleId = r})

RECURSIVE SumOver(_, _)
SumOver(S, term) ==
    IF S = {} THEN 0
    ELSE LET x == CHOOSE y \in S : TRUE IN term[x] + SumOver(S \ {x}, term)

\* C2: classifyChanges(P, C) equals the multiset reference (sets by membership,
\* counts by multiplicity, persistedCount by min), the regression flag is
\* introduced # {}, and P = {A,B}, C = {B,C} gives fixed {A}, persisted {B},
\* introduced {C}, regression.
C2_MultisetReference ==
    report # NoReport =>
        LET P  == prevViolations
            C  == currViolations
            fx == {r \in RuleIds : Mult(P, r) > 0 /\ Mult(C, r) = 0}
            nt == {r \in RuleIds : Mult(C, r) > 0 /\ Mult(P, r) = 0}
            ps == {r \in RuleIds : Mult(P, r) > 0 /\ Mult(C, r) > 0}
        IN  /\ Range(report.fixed) = fx /\ NoDup(report.fixed)
            /\ Range(report.introduced) = nt /\ NoDup(report.introduced)
            /\ Range(report.persisted) = ps /\ NoDup(report.persisted)
            /\ report.fixedCount = SumOver(fx, [r \in fx |-> Mult(P, r)])
            /\ report.introducedCount = SumOver(nt, [r \in nt |-> Mult(C, r)])
            /\ report.persistedCount =
                   SumOver(ps, [r \in ps |-> Min(Mult(P, r), Mult(C, r))])
            /\ report.isHydra = (nt # {})
            /\ (P = <<F("A"), F("B")>> /\ C = <<F("B"), F("C")>>) =>
                   /\ report.fixed = <<"A">>
                   /\ report.persisted = <<"B">>
                   /\ report.introduced = <<"C">>
                   /\ report.isHydra = TRUE

\* the hydra scenario has been classified
C2_Witness ==
    /\ report # NoReport
    /\ prevViolations = <<F("A"), F("B")>>
    /\ currViolations = <<F("B"), F("C")>>
    /\ report.isHydra

\* ------------------------------------------------------------------------
\* Claims about the orchestrator
\* ------------------------------------------------------------------------
PathOf(modelId) ==
    getCheckpointPath(modelId, cfg.securityContext, cfg.iterationsPerPrompt)

IsErrorRecord(rec) == "error" \in DOMAIN rec

HasErrorRecord(mr) ==
    \E p \in DOMAIN mr.byPrompt : \E j \in DOMAIN mr.byPrompt[p].iterations :
        \/ IsErrorRecord(mr.byPrompt[p].iterations[j])
        \/ /\ Truthy(mr.byPrompt[p].iterations[j].remediation)
           /\ IsErrorRecord(mr.byPrompt[p].iterations[j].remediation)

\* every prompt of the run, with every iteration, is in byPrompt
FullyFolded(mr) ==
    /\ Truthy(mr)
    /\ Len(mr.byPrompt) = Len(Prompts)
    /\ \A p \in DOMAIN mr.byPrompt :
          Len(mr.byPrompt[p].iterations) = cfg.iterationsPerPrompt

InFlight(provider) ==
    Cardinality({k \in Slots : /\ Provider(cfg.models[k]) = provider
                               /\ runner[k].pc \in InFlightPcs})

\* C3: a checkpoint is honored on resume only if its stored configuration
\* matches the active run on iteration count, round count (remediation enabled
\* or not) and condition flag; a checkpoint of another fingerprint is never
\* returned.
C3_FingerprintGate ==
    \A j \in DOMAIN resumeModels :
        LET file == checkpoints[PathOf(resumeModels[j].key)]
        IN  /\ file.exists
            /\ file.config.iterationsPerPrompt = cfg.iterationsPerPrompt
            /\ file.config.enableRemediation = cfg.enableRemediation
            /\ file.config.securityContext = cfg.securityContext

\* C4: an error thrown by generate, analyze or remediate ends only the attempt
\* it hit: no runner rejects, and when the run is done every provider that ran
\* has its fully folded result in the merged results and the cross-provider
\* summary is computed.
C4_ErrorsIsolated ==
    /\ \A k \in Slots : runner[k].pc \in {"idle", "returned"} \cup InFlightPcs
    /\ phase = "done" =>
          /\ \A k \in Slots :
                (~IsResumed(resumeModels, cfg.models[k]) /\ ~runner[k].skipped) =>
                    /\ runner[k].pc = "returned"
                    /\ ObjHas(resultsModels, cfg.models[k])
                    /\ FullyFolded(ObjGet(resultsModels, cfg.models[k]))
          /\ Len(resultsModels) > 0 => summary # NoSummary

\* a finished run in which one provider recorded an error and another
\* provider's result was merged and summarised
C4_Witness ==
    /\ phase = "done"
    /\ summary # NoSummary
    /\ \E j, k \in Slots :
          /\ j # k
          /\ ~runner[j].skipped /\ ~runner[k].skipped
          /\ HasErrorRecord(heap[ModelResultsOf(j)])
          /\ ObjHas(resultsModels, cfg.models[k])
          /\ ObjGet(resultsModels, cfg.models[k]).totalFunctions > 0

C6_SkippedNeverSaved ==
    \A k \in Slots :
        runner[k].skipped =>
            /\ runner[k].pc = "returned"
            /\ calls[k] = 0
            /\ heap[ModelResultsOf(k)] = Undefined
            /\ saves[cfg.models[k]] = 0
            /\ ~checkpoints[PathOf(cfg.models[k])].exists
            /\ ~ObjHas(ScanCheckpoints(cfg.models, checkpoints, cfg), cfg.models[k])

\* a finished run with a skipped provider next to a checkpointed one
C6_Witness ==
    /\ phase = "done"
    /\ \E j, k \in Slots : runner[j].skipped /\ saves[cfg.models[k]] = 1

\* C7: on a resumed run every provider accepted by the resume scan is
\* pre-seeded into the merged results with exactly the checkpointed result, its
\* runner is never called, it makes no external call and its checkpoint is not
\* rewritten; every other requested provider is executed.
C7_ResumePreSeed ==
    cfg.resume =>
        \A k \in Slots :
            LET m    == cfg.models[k]
                file == checkpoints[PathOf(m)]
            IN  IF ObjHas(resumeModels, m)
                THEN /\ runner[k].pc = "idle"
                     /\ calls[k] = 0
                     /\ saves[m] = 0
                     /\ file.exists
                     /\ ObjGet(resumeModels, m) = file.results
                     /\ phase # "start" => ObjGet(resultsModels, m) = file.results
                ELSE phase = "done" => runner[k].pc = "returned"

\* a finished resumed run with one provider taken from its checkpoint and
\* another one executed
C7_Witness ==
    /\ phase = "done"
    /\ cfg.resume
    /\ \E j, k \in Slots :
          /\ ObjHas(resumeModels, cfg.models[j])
          /\ ~ObjHas(resumeModels, cfg.models[k])
          /\ calls[k] > 0
          /\ ObjHas(resultsModels, cfg.models[j])
          /\ ObjHas(resultsModels, cfg.models[k])

\* C8: the runners of one transport family in flight never exceed
\* concurrency[family] (1 when the setting is unset or zero); runners of
\* different families may be in flight together.
C8_FamilyConcurrencyBound ==
    \A provider \in Providers :
        /\ cfg.concurrency[provider] = 0 => InFlight(provider) <= 1
        /\ cfg.concurrency[provider] > 0 => InFlight(provider) <= cfg.concurrency[provider]

\* two anthropic runners and the google runner in flight at the same time
C8_Witness ==
    /\ phase = "running"
    /\ cfg.concurrency["anthropic"] = 2
    /\ InFlight("anthropic") = 2
    /\ InFlight("google") = 1

\* The result of one provider over the prompt set, written down unit by unit
\* from what the collaborators return, without reference to the run's schedule.
RefIteration(modelId, promptId, i, c, transport) ==
    LET gen == generateCode(modelId, promptId, i, c.securityContext, transport)
        an  == analyzeWithESLint(modelId, promptId, i, c.securityContext)
        rem == remediateCode(modelId, promptId, i, c.securityContext)
        fx  == analyzeFixed(modelId, promptId, i, c.securityContext)
    IN  IF gen.threw THEN [iteration |-> i + 1, error |-> gen.message]
        ELSE IF an.threw THEN [iteration |-> i + 1, error |-> an.message]
        ELSE [IterationRecord(i, an.value) EXCEPT !.remediation =
                 IF ~(c.enableRemediation /\ Len(an.value) > 0) THEN Undefined
                 ELSE IF rem.threw THEN [error |-> rem.message]
                 ELSE IF fx.threw THEN [error |-> fx.message]
                 ELSE RemediationRecord(an.value, fx.value)]

RefByPrompt(modelId, c, transport) ==
    LET prompts == AllPrompts(c.categories)
    IN  [p \in DOMAIN prompts |->
            [ id         |-> prompts[p],
              iterations |-> [j \in 1..c.iterationsPerPrompt |->
                                 RefIteration(modelId, prompts[p], j - 1, c, transport)] ]]

RefResults(modelId, c, transport) ==
    LET byPrompt == RefByPrompt(modelId, c, transport)
        units    == (DOMAIN byPrompt) \X (1..c.iterationsPerPrompt)
        rec(u)   == byPrompt[u[1]].iterations[u[2]]
        ok       == {u \in units : ~IsErrorRecord(rec(u))}
        vuln     == {u \in ok : rec(u).vulnerabilityCount > 0}
        tried    == {u \in vuln : /\ Truthy(rec(u).remediation)
                                  /\ ~IsErrorRecord(rec(u).remediation)}
        fixedAll == {u \in tried : rec(u).remediation.remainingVulnerabilityCount = 0}
    IN  [ totalFunctions               |-> Cardinality(ok),
          functionsWithVulnerabilities |-> Cardinality(vuln),
          totalVulnerabilities         |->
              SumOver(vuln, [u \in vuln |-> rec(u).vulnerabilityCount]),
          byPrompt                     |-> byPrompt,
          remediationAttempts          |-> Cardinality(tried),
          remediationFullyFixed        |-> Cardinality(fixedAll),
          remediationTotalOriginal     |->
              SumOver(tried, [u \in tried |-> rec(u).remediation.originalVulnerabilityCount]),
          remediationTotalRemaining    |->
              SumOver(tried, [u \in tried |-> rec(u).remediation.remainingVulnerabilityCount]),
          vulnerabilityRateNumeric     |->
              IF Cardinality(ok) > 0
              THEN RoundPercent(Cardinality(vuln), Cardinality(ok)) ELSE 0,
          remediationEffectiveness     |->
              IF Cardinality(tried) > 0
              THEN [ attempts   |-> Cardinality(tried),
                     fullyFixed |-> Cardinality(fixedAll),
                     totalOriginalVulnerabilities  |->
                         SumOver(tried, [u \in tried |->
                                     rec(u).remediation.originalVulnerabilityCount]),
                     totalRemainingVulnerabilities |->
                         SumOver(tried, [u \in tried |->
                                     rec(u).remediation.remainingVulnerabilityCount]) ]
              ELSE Undefined ]

\* C9: for deterministic collaborators the byPrompt sequence (prompts in
\* category and registry order, iterations 1..N in order) and all aggregate
\* counts of a provider's result are the same whatever the family's
\* concurrency and whatever other runners are interleaved with it.
C9_OrderIndependentOfConcurrency ==
    \A k \in Slots :
        (runner[k].pc = "returned" /\ ~runner[k].skipped) =>
            heap[ModelResultsOf(k)] = RefResults(cfg.models[k], cfg, runner[k].transport)

\* two anthropic runners of one chunk (concurrency 2) have both returned
\* results over two prompts and two iterations
C9_Witness ==
    /\ cfg.concurrency["anthropic"] = 2
    /\ Len(Prompts) = 2 /\ cfg.iterationsPerPrompt = 2
    /\ \E j, k \in Slots :
          /\ j # k
          /\ Provider(cfg.models[j]) = "anthropic" /\ Provider(cfg.models[k]) = "anthropic"
          /\ runner[j].pc = "returned" /\ runner[k].pc = "returned"
          /\ heap[ModelResultsOf(j)].totalFunctions > 0
          /\ heap[ModelResultsOf(k)].totalFunctions > 0

\* position of a model id in the requested list
RequestIndex(modelId) == CHOOSE k \in Slots : cfg.models[k] = modelId

\* C10: when the run is done the providers of the merged result map appear in
\* the order of the requested provider list, whatever the completion order and
\* whichever providers were pre-seeded from checkpoints.
C10_MergedInRequestOrder ==
    phase = "done" =>
        \A a, b \in DOMAIN resultsModels :
            a < b => RequestIndex(resultsModels[a].key) < RequestIndex(resultsModels[b].key)

\* ------------------------------------------------------------------------
\* Claims about the hydra runner
\* ------------------------------------------------------------------------
IsHydraError(g) == "error" \in DOMAIN g

\* the remediation calls started for the unit of work in progress
RemediateCalls == SelectSeq(hydra.log, LAMBDA e : e.op = "remediate")

UnitReturned == hydra.pc \in {"betweenPrompts", "done"}

\* C11: remediation round r (1 <= r <= maxRounds) is attempted if and only if
\* generation 0 and all rounds before r succeeded and the latest findings are
\* non-empty; the unit makes at most maxRounds remediation calls and ends at the
\* first of zero findings, round limit, prose response or error; a failing
\* round is the last record, holds the error and no findings, and no call
\* follows it; the runner can always take a step until it is done.
C11_RoundGuard ==
    LET gs == hydra.generations
    IN  /\ hydra.pc = "remediate" =>
              /\ hydra.round \in 1..hydra.maxRounds
              /\ Len(gs) = hydra.round
              /\ \A k \in DOMAIN gs : ~IsHydraError(gs[k]) /\ gs[k].generation = k - 1
              /\ gs[Len(gs)].violationCount > 0
        /\ (UnitReturned /\ gs # <<>> /\ ~IsHydraError(gs[Len(gs)])
               /\ gs[Len(gs)].violationCount > 0)
              => Len(gs) = hydra.maxRounds + 1
        /\ Len(RemediateCalls) <= hydra.maxRounds
        /\ \A k \in DOMAIN RemediateCalls : RemediateCalls[k].round = k
        /\ \A k \in DOMAIN gs :
              IsHydraError(gs[k]) =>
                  /\ k = Len(gs)
                  /\ DOMAIN gs[k] = {"generation", "error"}
                  /\ UnitReturned
        /\ hydra.pc \in {"generate", "analyze", "remediate", "delay", "betweenPrompts"}
              => ENABLED HydraNext

\* a unit that ran round 1 to a re-analysis with findings left and stopped in
\* round 2 on a prose response
C11_Witness ==
    /\ hydra.pc = "betweenPrompts"
    /\ hydra.maxRounds = 2
    /\ Len(hydra.generations) = 3
    /\ ~IsHydraError(hydra.generations[2])
    /\ hydra.generations[2].violationCount > 0
    /\ IsHydraError(hydra.generations[3])
    /\ hydra.generations[3].error = "Model returned prose instead of code"
    /\ Len(RemediateCalls) = 2

\* the generateWithClaude call of the unit in progress failed: the unit has
\* returned without any analysis having been started
GenerationCallFailed ==
    /\ UnitReturned
    /\ \A k \in DOMAIN hydra.log : hydra.log[k].op # "analyze"

\* C12: a unit whose initial generation call fails ends in one errored record
\* that carries the error message and no findings, no remediation is attempted
\* for it, and the generation 0 statistics count it neither as a prompt with
\* vulnerabilities nor as a clean prompt.
C12_GenerationErrorTerminal ==
    /\ GenerationCallFailed =>
          /\ hydra.log = <<[op |-> "generate", round |-> 0]>>
          /\ Len(hydra.generations) = 1
          /\ DOMAIN hydra.generations[1] = {"generation", "error"}
          /\ hydra.generations[1].generation = 0
          /\ hydra.generations[1].error = "Claude CLI failed"
    /\ hydra.pc = "done" =>
          LET ps       == hydra.prompts
              errored  == {k \in DOMAIN ps : IsHydraError(ps[k].generations[1])}
              withVuln == {k \in DOMAIN ps \ errored :
                              ps[k].generations[1].violationCount > 0}
              clean    == {k \in DOMAIN ps \ errored :
                              ps[k].generations[1].violationCount = 0}
          IN  /\ hydra.summary.gen0.promptsWithVulnerabilities = Cardinality(withVuln)
              /\ hydra.summary.gen0.cleanPrompts = Cardinality(clean)
              /\ hydra.summary.gen0.totalVulnerabilities =
                     SumOver(withVuln, [k \in withVuln |->
                                           ps[k].generations[1].violationCount])
              /\ hydra.summary.totalRemediationAttempts =
                     SumOver(DOMAIN ps \ errored,
                             [k \in DOMAIN ps \ errored |->
                                 Cardinality({j \in DOMAIN ps[k].generations :
                                     j > 1 /\ ~IsHydraError(ps[k].generations[j])})])

\* a finished run whose first prompt failed to generate and whose second
\* prompt is clean: one clean prompt, none with vulnerabilities
C12_Witness ==
    /\ hydra.pc = "done"
    /\ hydra.prompts[1].generations = <<HydraError(0, "Claude CLI failed")>>
    /\ ~IsHydraError(hydra.prompts[2].generations[1])
    /\ hydra.prompts[2].generations[1].violationCount = 0
    /\ hydra.summary.gen0.cleanPrompts = 1
    /\ hydra.summary.gen0.promptsWithVulnerabilities = 0

\* C13: every successfully re-analyzed round r >= 1 carries the ChangeReport
\* classifyChanges(findings of the preceding successful round, findings of
\* round r); generation 0 and errored rounds carry none. Three findings at
\* round 0 followed by none at round 1 give fixedCount 3 and introducedCount 0.
C13_ChangesAgainstPreviousRound ==
    LET gs == hydra.generations
    IN  \A k \in DOMAIN gs :
            /\ (k = 1 \/ IsHydraError(gs[k])) => "changes" \notin DOMAIN gs[k]
            /\ (k > 1 /\ ~IsHydraError(gs[k])) =>
                  /\ ~IsHydraError(gs[k - 1])
                  /\ gs[k].changes = classifyChanges(gs[k - 1].violations, gs[k].violations)
                  /\ (k = 2 /\ gs[1].violationCount = 3 /\ gs[2].violationCount = 0) =>
                        /\ gs[2].changes.fixedCount = 3
                        /\ gs[2].changes.introducedCount = 0

\* round 2 re-analyzed after a round 1 whose findings differ from those of
\* generation 0
C13_Witness ==
    /\ Len(hydra.generations) = 3
    /\ ~IsHydraError(hydra.generations[3])
    /\ hydra.generations[1].violations # hydra.generations[2].violations
    /\ hydra.generations[3].changes.fixed = <<"B", "C">>

\* ------------------------------------------------------------------------
\* Claims about the orchestrator (continued)
\* ------------------------------------------------------------------------
\* C14: within one provider's pipeline a full rate-limit delay of that provider
\* (at least 500 ms) has been awaited between the starts of any two consecutive
\* external calls, the generation call and the remediation call of one unit of
\* work included.
C14_DelayBetweenExternalCalls ==
    \A k \in Slots :
        \A gap \in runner[k].gaps :
            /\ gap >= RateLimitDelay(cfg, Provider(cfg.models[k]))
            /\ gap >= 500

\* the calls of one kind started in one round of the unit in progress
CallsOf(op, round) ==
    Cardinality({k \in DOMAIN hydra.log :
                    hydra.log[k].op = op /\ hydra.log[k].round = round})

UnsavedProgress(k) ==
    /\ ~runner[k].skipped
    /\ calls[k] > 0
    /\ saves[cfg.models[k]] = 0

\* C16: at every moment at most one provider has work, in flight or already
\* completed, that is not yet saved as a checkpoint, so that a crash loses at
\* most one provider's progress.
C16_AtMostOneUnsaved ==
    Cardinality({k \in Slots : UnsavedProgress(k)}) <= 1

\* runBenchmark rejected: the run is aborted and main reports the error
HardFailure == phase = "aborted"

\* C17: when zero providers resolve to a result the orchestrator surfaces a
\* hard failure to its caller instead of returning normally, and nothing else
\* aborts the overall run.
C17_ZeroProvidersHardFailure ==
    /\ phase = "done" => Len(resultsModels) > 0
    /\ HardFailure => Len(resultsModels) = 0

\* C20: a checkpoint file of unexpected shape (not JSON, no fingerprint, or a
\* matching fingerprint without result payload) is treated like an absent one:
\* the resume scan takes nothing from it, the run is not aborted, and the
\* provider is re-run.
C20_MalformedTreatedAsAbsent ==
    /\ \A j \in DOMAIN resultsModels : Truthy(resultsModels[j].value)
    /\ ~HardFailure
    /\ phase = "done" =>
          \A k \in Slots :
              ~IsResumed(resumeModels, cfg.models[k]) => runner[k].pc = "returned"

\* C18: a provider skipped for missing credentials is in no denominator of the
\* summary but is present, with a skipped status, in the result set of the run.
C18_SkippedInRawResults ==
    phase = "done" =>
        \A k \in Slots :
            runner[k].skipped =>
                /\ ObjHas(resultsModels, cfg.models[k])
                /\ "skipped" \in DOMAIN ObjGet(resultsModels, cfg.models[k])
                /\ summary # NoSummary =>
                      summary.totalModels =
                          Cardinality({j \in DOMAIN resultsModels :
                                          "skipped" \notin DOMAIN resultsModels[j].value})

\* what the record at position k of the unit in progress would be had the
\* linter reported no message at all
CleanRecordAt(k) ==
    IF k = 1 THEN HydraGeneration(0, <<>>)
    ELSE HydraRound(k - 1, <<>>,
                    classifyChanges(hydra.generations[k - 1].violations, <<>>))

\* a record without the code text
AnalysisPart(g) == [f \in DOMAIN g \ {"code"} |-> g[f]]

\* C19: an attempt whose analysis hit a parse failure is recorded with an empty
\* finding list and with a parse-error flag, so that what is recorded about the
\* analysis differs from the record of a genuinely clean result.
C19_ParseErrorFlagged ==
    \A k \in DOMAIN hydra.generations :
        (k - 1) \in hydra.parseFailed =>
            /\ ~IsHydraError(hydra.generations[k])
            /\ hydra.generations[k].violations = <<>>
            /\ AnalysisPart(hydra.generations[k]) # AnalysisPart(CleanRecordAt(k))

\* C21: for every pair of finding lists (P, C) the report of classifyChanges has
\* introducedCount + persistedCount <= currTotal = Len(C), and the two are equal
\* exactly when no persisted rule id occurs more often in C than in P.
C21_IntroducedPlusPersistedBound ==
    report # NoReport =>
        /\ report.currTotal = Len(currViolations)
        /\ report.introducedCount + report.persistedCount <= report.currTotal
        /\ (report.introducedCount + report.persistedCount = report.currTotal)
              <=> \A r \in Range(report.persisted) :
                      Mult(currViolations, r) <= Mult(prevViolations, r)

\* a classified pair with an introduced rule and a persisted rule that occurs
\* more often in C than in P: the sum stays strictly below currTotal
C21_Witness ==
    /\ report # NoReport
    /\ report.introduced # <<>>
    /\ report.persisted # <<>>
    /\ report.introducedCount + report.persistedCount < report.currTotal

\* ------------------------------------------------------------------------
\* Claims about the statistics functions
\* ------------------------------------------------------------------------
\* C22: for all integers 0 <= successes <= n, wilsonScoreInterval(successes, n)
\* returns percentages with 0 <= lower <= point <= upper <= 100, and for n = 0
\* it returns {lower: 0, upper: 0, point: 0}.
C22_WilsonOrdered ==
    (stat.op = "wilson" /\ stat.result # NoResult) =>
        /\ FLessEq(Zero, stat.result.lower)
        /\ FLessEq(stat.result.lower, stat.result.point)
        /\ FLessEq(stat.result.point, stat.result.upper)
        /\ FLessEq(stat.result.upper, FromInt(100))
        /\ stat.n = 0 => stat.result = [lower |-> Zero, upper |-> Zero, point |-> Zero]

\* the critical value at p = 0.05 for df, the largest tabulated one above the table
ConservativeCriticalValue(df) ==
    IF df \in DOMAIN CriticalValues THEN Literal3(CriticalValues[df])
    ELSE Literal3(CriticalValues[Len(CriticalValues)])

\* C23: with at least two groups chiSquaredTest reports df = groups - 1 and
\* significant = (statistic > critical value for df), the tabulated value for
\* df 1..5 and the largest tabulated value for every df above 5; with fewer
\* than two groups it returns statistic 0 and significant = false.
C23_ChiSquaredSignificance ==
    (stat.op = "chiSquared" /\ stat.result # NoResult) =>
        IF Len(stat.modelData) >= 2
        THEN /\ stat.result.df = Len(stat.modelData) - 1
             /\ stat.result.significant
                  = FLess(ConservativeCriticalValue(stat.result.df), stat.result.chiSquared)
        ELSE /\ stat.result.chiSquared = Zero
             /\ stat.result.significant = FALSE

\* C28: for at least two groups with 0 <= successes <= total, chiSquaredTest
\* computes a defined, non-negative statistic, also when a group has total 0,
\* when no group has a success and when every group has only successes.
C28_ChiSquaredDefined ==
    (stat.op = "chiSquared" /\ stat.result # NoResult /\ Len(stat.modelData) >= 2) =>
        /\ stat.result.chiSquared.kind = "num"
        /\ FLessEq(Zero, stat.result.chiSquared)

\* ------------------------------------------------------------------------
\* Claims about the counters of one provider's result
\* ------------------------------------------------------------------------
RECURSIVE ConcatIterations(_)
ConcatIterations(byPrompt) ==
    IF byPrompt = <<>> THEN <<>>
    ELSE byPrompt[1].iterations \o ConcatIterations(Tail(byPrompt))

\* every iteration record runner k has pushed so far
RecordsOf(k) ==
    ConcatIterations(heap[ModelResultsOf(k)].byPrompt)
      \o (IF Truthy(runner[k].promptResults) THEN runner[k].promptResults.iterations
          ELSE <<>>)

\* the unit's remediation call and re-analysis both succeeded
Remediated(rec) ==
    /\ ~IsErrorRecord(rec)
    /\ Truthy(rec.remediation)
    /\ ~IsErrorRecord(rec.remediation)

\* C24: after any sequence of units of work of one provider, remediation
\* attempts = units whose remediation call and re-analysis both succeeded,
\* fullyFixed = those of them whose re-analysis returned zero findings,
\* totalFunctions = iteration records without an error, and fullyFixed <=
\* attempts <= functionsWithVulnerabilities <= totalFunctions <= prompts *
\* iterationsPerPrompt.
C24_CountersMatchRecords ==
    \A k \in Slots :
        Truthy(heap[ModelResultsOf(k)]) =>
            LET mr   == heap[ModelResultsOf(k)]
                recs == RecordsOf(k)
                rem  == {j \in DOMAIN recs : Remediated(recs[j])}
            IN  /\ mr.remediationAttempts = Cardinality(rem)
                /\ mr.remediationFullyFixed =
                     Cardinality({j \in rem : recs[j].remediation.remainingVulnerabilityCount = 0})
                /\ \A j \in rem : recs[j].remediation.fixedAllVulnerabilities
                                    = (recs[j].remediation.remainingVulnerabilityCount = 0)
                /\ mr.totalFunctions =
                     Cardinality({j \in DOMAIN recs : ~IsErrorRecord(recs[j])})
                /\ mr.remediationFullyFixed <= mr.remediationAttempts
                /\ mr.remediationAttempts <= mr.functionsWithVulnerabilities
                /\ mr.functionsWithVulnerabilities <= mr.totalFunctions
                /\ mr.totalFunctions <= Len(Prompts) * cfg.iterationsPerPrompt
                /\ Truthy(mr.remediationEffectiveness) =>
                      /\ mr.remediationEffectiveness.attempts = mr.remediationAttempts
                      /\ mr.remediationEffectiveness.fullyFixed = mr.remediationFullyFixed

\* a returned provider with an errored unit, a remediation that fixed
\* everything and one that did not
C24_Witness ==
    \E k \in Slots :
        /\ runner[k].pc = "returned"
        /\ Truthy(heap[ModelResultsOf(k)])
        /\ HasErrorRecord(heap[ModelResultsOf(k)])
        /\ heap[ModelResultsOf(k)].remediationFullyFixed >= 1
        /\ heap[ModelResultsOf(k)].remediationAttempts
             > heap[ModelResultsOf(k)].remediationFullyFixed

\* runner k writes to the console as it goes: it was called with streamOutput
\* and is between its header lines and its return
WritesLive(k) ==
    /\ runner[k].streamOutput
    /\ runner[k].pc \in InFlightPcs \ {"called"}

\* C25: a provider runner writes its progress live only while no other
\* provider runner is in flight; whenever two runners can be in flight at
\* once, in one family or in two, their output is buffered, so that the
\* output of two runners is never interleaved.
C25_LiveOutputOnlyWhenAlone ==
    \A j, k \in Slots :
        (j # k /\ WritesLive(j)) => runner[k].pc \notin InFlightPcs

\* ------------------------------------------------------------------------
\* Save under one --categories selection, resume under another
\* ------------------------------------------------------------------------
\* configurations of one provider with either category selection
CategoryConfigs(resume) ==
    ConfigsOf({<<"opus-4.6">>}, CategoryChoices, {DefaultConcurrency}, {resume})

CategoriesInit ==
    /\ ClassifierIdle
    /\ hydra = HydraIdle
    /\ stat = StatIdle
    /\ \E c \in CategoryConfigs(FALSE) : MainCalls(c, NoCheckpoints, MaxRuns - 1)

\* the process has exited; main() is invoked again with --resume and any
\* --categories value
MainAgainCategories ==
    /\ phase = "done"
    /\ runsLeft > 0
    /\ \E c \in CategoryConfigs(TRUE) :
          /\ cfg' = c
          /\ phase' = "start"
          /\ resumeModels' = ResumeScan(c, checkpoints)
          /\ resultsModels' = <<>>
          /\ summary' = NoSummary
          /\ groups' = <<>>
          /\ runner' = [k \in DOMAIN c.models |-> IdleRunner]
          /\ heap' = [k \in DOMAIN c.models |-> Undefined]
          /\ calls' = [k \in DOMAIN c.models |-> 0]
          /\ saves' = [m \in ModelIds |-> 0]
    /\ runsLeft' = runsLeft - 1
    /\ UNCHANGED checkpoints
    /\ UNCHANGED <<classifyVars, hydraVars, statVars>>

CategoriesNext == Next \/ MainAgainCategories

SpecCategories == CategoriesInit /\ [][CategoriesNext]_vars

\* the prompt ids a result was produced over
PromptIdsOf(mr) == [p \in DOMAIN mr.byPrompt |-> mr.byPrompt[p].id]

\* C26: every result in a run's merged results was produced over exactly the
\* active run's category selection: a checkpoint saved with a different set
\* of categories is not reused.
C26_ResultsOverActiveCategories ==
    \A j \in DOMAIN resultsModels :
        /\ PromptIdsOf(resultsModels[j].value) = Prompts
        /\ ObjHas(resumeModels, resultsModels[j].key) =>
               checkpoints[PathOf(resultsModels[j].key)].config.categories
                   = cfg.categories

\* every unit of work of the result ended in a generation error
AllUnitsErrored(mr) ==
    /\ mr.byPrompt # <<>>
    /\ \A p \in DOMAIN mr.byPrompt :
          /\ mr.byPrompt[p].iterations # <<>>
          /\ \A j \in DOMAIN mr.byPrompt[p].iterations :
                 IsErrorRecord(mr.byPrompt[p].iterations[j])

\* the stored configuration of the file equals the active run's on iteration
\* count, remediation setting and condition flag
SameFingerprint(file) ==
    /\ file.config.iterationsPerPrompt = cfg.iterationsPerPrompt
    /\ file.config.enableRemediation = cfg.enableRemediation
    /\ file.config.securityContext = cfg.securityContext

\* C27: when a run is done, every provider that was not skipped has its
\* checkpoint on disk holding its result, also when every one of its units
\* errored; and in a run with --resume a provider whose checkpoint of the
\* same fingerprint was on disk when the run began is pre-seeded into the
\* merged results and is never executed.
C27_ErroredProviderCheckpointed ==
    \A k \in Slots :
        LET m    == cfg.models[k]
            file == checkpoints[PathOf(m)]
        IN  /\ (phase = "done" /\ runner[k].pc = "returned" /\ ~runner[k].skipped)
                => /\ file.exists
                   /\ file.results = heap[ModelResultsOf(k)]
            /\ (cfg.resume /\ saves[m] = 0 /\ file.exists /\ SameFingerprint(file))
                => /\ ObjHas(resumeModels, m)
                   /\ runner[k].pc = "idle"
                   /\ calls[k] = 0
                   /\ phase # "start" => ObjGet(resultsModels, m) = file.results

\* a finished resumed run that took from its checkpoint a provider every one
\* of whose units errored in the run that saved it
C27_Witness ==
    /\ phase = "done"
    /\ cfg.resume
    /\ \E k \in Slots :
          LET m == cfg.models[k]
          IN  /\ checkpoints[PathOf(m)].exists
              /\ SameFingerprint(checkpoints[PathOf(m)])
              /\ AllUnitsErrored(checkpoints[PathOf(m)].results)
              /\ ObjGet(resultsModels, m) = checkpoints[PathOf(m)].results
              /\ runner[k].pc = "idle"
              /\ calls[k] = 0

\* ------------------------------------------------------------------------
\* --model lists with aliases and repeated names
\* ------------------------------------------------------------------------
\* longest --model list of the alias specification
MaxNames == 2

\* names given in --model=...
ModelNames == {"opus", "opus-4.6", "sonnet", "flash"}

\* aliases[trimmed] || trimmed
Aliases(name) ==
    CASE name = "opus"   -> "opus-4.6"
      [] name = "sonnet" -> "sonnet-4.5"
      [] name = "flash"  -> "gemini-3-flash"
      [] OTHER           -> name

\* selectedModels = modelArg.split(",").map(...): nothing removes a repeated id
SelectedModels(names) == [k \in DOMAIN names |-> Aliases(names[k])]

AliasConfigs ==
    ConfigsOf({SelectedModels(names) : names \in SeqsUpTo(ModelNames, MaxNames) \ {<<>>}},
              {<<"database">>}, ConcurrencyChoices, {FALSE})

AliasInit ==
    /\ ClassifierIdle
    /\ hydra = HydraIdle
    /\ stat = StatIdle
    /\ \E c \in AliasConfigs : MainCalls(c, NoCheckpoints, 0)

SpecAliases == AliasInit /\ [][Next]_vars

\* `ag-${modelId}-${promptConfig.id}-${i}.js` and `...-${i}-fixed.js`
TempFileName(modelId, promptId, i, fixed) == <<"ag", modelId, promptId, i, fixed>>

\* runner k is inside analyzeWithESLint, between fs.writeFileSync(tempFile, code)
\* and fs.unlinkSync(tempFile)
Analyzing(k) == runner[k].pc \in {"analyze", "reanalyze"}

TempFileOf(k) ==
    TempFileName(cfg.models[k], Prompts[runner[k].pi], runner[k].i,
                 runner[k].pc = "reanalyze")

\* C29: no two runners that are in flight at once touch the same analyzer
\* temp file, for every --model list (also one that names a provider twice,
\* directly or through an alias) and every concurrency setting.
C29_TempFilesDisjoint ==
    \A j, k \in Slots :
        (j # k /\ Analyzing(j) /\ Analyzing(k)) => TempFileOf(j) # TempFileOf(k)

\* ------------------------------------------------------------------------
\* --concurrency-anthropic with any integer, negative ones included
\* ------------------------------------------------------------------------
\* parseInt of the flag: a negative number stays negative
IntegerConcurrencyChoices ==
    {[anthropic |-> a, google |-> 1] : a \in (-MaxNegative)..MaxConcurrency}

IntegerConfigs ==
    ConfigsOf(ModelLists, {<<"database">>}, IntegerConcurrencyChoices, {FALSE})

IntegerInit ==
    /\ ClassifierIdle
    /\ hydra = HydraIdle
    /\ stat = StatIdle
    /\ \E c \in IntegerConfigs : MainCalls(c, NoCheckpoints, 0)

SpecIntegers == IntegerInit /\ [][Next]_vars

\* C30: for every integer per-family bound, zero and negative ones included,
\* runModelsWithConcurrency terminates, runs each provider of its list
\* exactly once and returns one outcome per provider in list order: every
\* pass of its loop calls at least one runner, the providers called so far
\* are the first ones of the list, each once, and the returned outcomes are
\* the whole list.
C30_EveryBoundRunsEachOnce ==
    \A g \in DOMAIN groups :
        LET grp    == groups[g]
            called == grp.outcomes \o grp.chunk
        IN  /\ ~grp.done => grp.chunk # <<>>
            /\ Len(called) <= Len(grp.modelIds)
            /\ called = SubSeq(grp.modelIds, 1, Len(called))
            /\ grp.done => grp.outcomes = grp.modelIds

====
